---- MODULE Spec2Model ----
(***************************************************************************)
(* Batch loaders that materialise the IATI property graph in Neo4j from    *)
(* PostgreSQL link tables (src/graph/load_*_edges.py and the node          *)
(* loaders).  One behaviour is one loader, run once (Spec) or twice        *)
(* (RerunSpec) over the same source table against the same graph backend.  *)
(* LogSpec follows the detail log over two runs, InterruptSpec a run that  *)
(* an operator interrupts, ConnectSpec a script from its first connection  *)
(* attempt, OrchestratorSpec the scripts that run the loaders in order.    *)
(* ResolveSpec runs the financial loader over typed endpoints,             *)
(* LoadEdgesSpec the configured loader of load_graph.py, EmptyGraphSpec    *)
(* the phantom activity loader on an empty graph, PublishSpec the two      *)
(* passes of the publication loader, and HierarchySpec the hierarchy       *)
(* loader in runs without a backend failure.                               *)
(***************************************************************************)
EXTENDS Integers, Sequences, FiniteSets, TLC

(* ------------------------------ bounds --------------------------------- *)
MaxRows == 4
MaxBatchSize == 2
\* Source rows of a run that is followed from its connection attempts on
MaxConnectRows == 2

(* ------------------------------ values --------------------------------- *)
\* Python None / SQL NULL / Cypher null
None == "None"

\* Python truthiness of a scalar column value: None and '' are falsy
Falsy(v) == v = None \/ v = ""

ORGANISATION_LABEL == "PublishedOrganisation"
PHANTOM_ORG_LABEL == "PhantomOrganisation"
ACTIVITY_LABEL == "PublishedActivity"
PHANTOM_ACTIVITY_LABEL == "PhantomActivity"

EdgeLoaders ==
    {"participation", "activity_participation", "financial", "funds", "hierarchy"}

NodeLoaders == {"published_organisations", "phantom_activities"}

\* The two passes of load_publication_edges.py: primary and fallback matches
PublicationLoaders == {"publication", "publication_fallback"}

Loaders == EdgeLoaders \cup NodeLoaders \cup PublicationLoaders

NEO4J_NODE_LABEL(l) ==
    CASE l = "published_organisations" -> ORGANISATION_LABEL
      [] l = "phantom_activities" -> PHANTOM_ACTIVITY_LABEL

NEO4J_EDGE_TYPE(l) ==
    CASE l = "participation" -> "PARTICIPATES_IN"
      [] l = "activity_participation" -> "ACTIVITY_PARTICIPATION"
      [] l = "financial" -> "FINANCIAL_TRANSACTION"
      [] l = "funds" -> "FUNDS"
      [] l = "hierarchy" -> "PARENT_OF"
      [] l \in PublicationLoaders -> "PUBLISHES"

\* A text[] column value: SQL NULL or an ordered sequence of scalars
NullArr == [isnull |-> TRUE, elems |-> <<>>]
Arr(s) == [isnull |-> FALSE, elems |-> s]

\* A relationship endpoint that did not resolve (Cypher null node)
NoNode == [label |-> "None", id |-> "None"]

Node(label, id) == [label |-> label, id |-> id]

(* --------------------------- source rows ------------------------------- *)
\* One source row.  src/tgt are the two endpoint identifier columns,
\* stype/ttype the *_node_type columns (financial_links, funds_links),
\* code is transactiontype_code, val stands for the scalar property columns
\* (role_code/role_name, currency, transaction_type_name) and arr for the
\* array-typed columns (role_codes/role_names, declared_by).
Row(s, st, t, tt, c, v, a) ==
    [src |-> s, stype |-> st, tgt |-> t, ttype |-> tt, code |-> c, val |-> v, arr |-> a]

\* Identifier "p" is carried by a published node only, "h" by a phantom node
\* only, "b" by both, "m" by no node (see Graph0).
ParticipationRows ==
    { Row(None, None, "p", None, None, "x", NullArr),
      Row("", None, "p", None, None, "x", NullArr),
      Row("h", None, "b", None, None, "x", NullArr),
      Row("h", None, "b", None, None, None, NullArr),
      Row("m", None, "m", None, None, "x", NullArr) }

ActivityParticipationRows ==
    { Row("p", None, None, None, None, None, Arr(<<"x">>)),
      Row("h", None, "b", None, None, None, Arr(<<"x", "y">>)),
      Row("h", None, "b", None, None, None, Arr(<<"y">>)),
      Row("m", None, "p", None, None, None, Arr(<<>>)),
      Row("p", None, "m", None, None, None, NullArr) }

FinancialRows ==
    { Row(None, "ORGANISATION", "p", "ACTIVITY", "1", "x", NullArr),
      Row("h", "ORGANISATION", "b", "ACTIVITY", "1", "x", NullArr),
      Row("h", "ORGANISATION", "b", "ACTIVITY", "1", None, NullArr),
      Row("h", "ORGANISATION", "b", "ACTIVITY", "2", "x", NullArr),
      Row("m", "ORGANISATION", "p", "ACTIVITY", "1", "x", NullArr),
      Row("b", "ACTIVITY", "p", "ORGANISATION", None, "y", NullArr) }

FundsRows ==
    { Row(None, "ACTIVITY", "p", "ACTIVITY", None, "x", NullArr),
      Row("h", "ACTIVITY", "b", "ACTIVITY", None, "x", NullArr),
      Row("h", "ACTIVITY", "b", "ACTIVITY", None, None, NullArr),
      Row("m", "ACTIVITY", "p", "ACTIVITY", None, "x", NullArr),
      Row("p", "ACTIVITY", "m", "ACTIVITY", None, "y", NullArr) }

HierarchyRows ==
    { Row("", None, "p", None, None, None, Arr(<<"x">>)),
      Row("p", None, None, None, None, None, Arr(<<"x">>)),
      Row("h", None, "b", None, None, None, Arr(<<"x", "y">>)),
      Row("h", None, "b", None, None, None, NullArr),
      Row("p", None, "b", None, None, None, Arr(<<>>)),
      Row("m", None, "p", None, None, None, Arr(<<"y">>)) }

\* Rows of the publication queries: src is org_ref (primary pass) or
\* org_identifier (fallback pass), tgt is activity_id.
PublicationRows ==
    { Row("p", None, "b", None, None, None, NullArr),
      Row("h", None, "b", None, None, None, NullArr),
      Row("p", None, "m", None, None, None, NullArr),
      Row("b", None, "p", None, None, None, NullArr) }

\* A row of published_organisations (name stands for every non-key column)
OrgRow(id, name) == [organisationidentifier |-> id, name |-> name]

\* "n" is an identifier that no node of Graph0 carries under the loader's label
OrganisationRows ==
    { OrgRow(None, "x"), OrgRow("p", "x"), OrgRow("p", "y"),
      OrgRow("n", "x"), OrgRow("n", None) }

\* A row of phantom_activities
PhantomRow(id, col, act) ==
    [phantom_activity_identifier |-> id, source_column |-> col, source_activity_id |-> act]

PhantomRows ==
    { PhantomRow("h", "c1", "A"), PhantomRow("h", "c1", "B"), PhantomRow("h", "c2", "C"),
      PhantomRow("n", "c1", "A"), PhantomRow("n", "c2", "A"), PhantomRow("n", "c1", None),
      PhantomRow(None, "c1", "A") }

\* The rows a behaviour may find in the source table of loader l
SourceRows(l) ==
    CASE l = "participation" -> ParticipationRows
      [] l = "activity_participation" -> ActivityParticipationRows
      [] l = "financial" -> FinancialRows
      [] l = "funds" -> FundsRows
      [] l = "hierarchy" -> HierarchyRows
      [] l = "published_organisations" -> OrganisationRows
      [] l = "phantom_activities" -> PhantomRows
      [] l \in PublicationLoaders -> PublicationRows

\* Position of an identifier under ORDER BY "phantom_activity_identifier"
\* (ascending, NULLs last)
IdOrder(id) == CASE id = "h" -> 1 [] id = "n" -> 2 [] OTHER -> 3

\* Whether table t can be what the loader's SELECT returns: the phantom
\* activity loader orders by identifier, the others state no order.
CursorOrder(l, t) ==
    l = "phantom_activities" =>
        \A i \in 1..(Len(t) - 1) :
            IdOrder(t[i].phantom_activity_identifier)
                <= IdOrder(t[i + 1].phantom_activity_identifier)

RECURSIVE Tables(_, _)
\* every table of exactly n rows
Tables(S, n) ==
    IF n = 0 THEN {<<>>}
    ELSE {Append(t, r) : t \in Tables(S, n - 1), r \in S}

(* ------------------------------ graph ---------------------------------- *)
\* The graph the node loaders leave behind: each label holds at most one
\* node per identifier (the node loaders MERGE on the identifying property).
Graph0 ==
    { Node(ORGANISATION_LABEL, "p"), Node(ORGANISATION_LABEL, "b"),
      Node(PHANTOM_ORG_LABEL, "h"), Node(PHANTOM_ORG_LABEL, "b"),
      Node(ACTIVITY_LABEL, "p"), Node(ACTIVITY_LABEL, "b"),
      Node(PHANTOM_ACTIVITY_LABEL, "h"), Node(PHANTOM_ACTIVITY_LABEL, "b") }


(* --------------------------- entity resolver --------------------------- *)
\* OPTIONAL MATCH (n:label) WHERE n.<id property> = id : the node, or null
OptionalMatch(nodes, label, id) ==
    IF \E n \in nodes : n.label = label /\ n.id = id
    THEN CHOOSE n \in nodes : n.label = label /\ n.id = id
    ELSE NoNode

RECURSIVE COALESCE(_)
\* Cypher COALESCE: the first non-null element
COALESCE(s) ==
    IF s = <<>> THEN NoNode
    ELSE IF Head(s) # NoNode THEN Head(s) ELSE COALESCE(Tail(s))

\* A resolver that is NOT the program's: phantom label first.  Precedence
\* properties must tell it from PublishedOrPhantom.
PhantomOrPublished(nodes, pubLabel, phanLabel, id) ==
    LET phan == OptionalMatch(nodes, phanLabel, id)
        pub == IF phan = NoNode THEN OptionalMatch(nodes, pubLabel, id) ELSE NoNode
    IN COALESCE(<<phan, pub>>)

\* OPTIONAL MATCH (pub:pubLabel) WHERE pub.id = id
\* OPTIONAL MATCH (phan:phanLabel) WHERE pub IS NULL AND phan.id = id
\* WITH COALESCE(pub, phan)
PublishedOrPhantom(nodes, pubLabel, phanLabel, id) ==
    LET pub == OptionalMatch(nodes, pubLabel, id)
        phan == IF pub = NoNode THEN OptionalMatch(nodes, phanLabel, id) ELSE NoNode
    IN COALESCE(<<pub, phan>>)

\* A resolver that is NOT the program's: the four OPTIONAL MATCHes without
\* their guard on the type column
PolymorphicNodeAnyFamily(nodes, type, id) ==
    LET pubOrg == OptionalMatch(nodes, ORGANISATION_LABEL, id)
        phanOrg == IF pubOrg = NoNode
                   THEN OptionalMatch(nodes, PHANTOM_ORG_LABEL, id) ELSE NoNode
        pubAct == OptionalMatch(nodes, ACTIVITY_LABEL, id)
        phanAct == IF pubAct = NoNode
                   THEN OptionalMatch(nodes, PHANTOM_ACTIVITY_LABEL, id) ELSE NoNode
    IN COALESCE(<<pubOrg, phanOrg, pubAct, phanAct>>)

\* financial_links: the four type-guarded OPTIONAL MATCHes of one endpoint
PolymorphicNode(nodes, type, id) ==
    LET pubOrg == IF type = "ORGANISATION"
                  THEN OptionalMatch(nodes, ORGANISATION_LABEL, id) ELSE NoNode
        phanOrg == IF type = "ORGANISATION" /\ pubOrg = NoNode
                   THEN OptionalMatch(nodes, PHANTOM_ORG_LABEL, id) ELSE NoNode
        pubAct == IF type = "ACTIVITY"
                  THEN OptionalMatch(nodes, ACTIVITY_LABEL, id) ELSE NoNode
        phanAct == IF type = "ACTIVITY" /\ pubAct = NoNode
                   THEN OptionalMatch(nodes, PHANTOM_ACTIVITY_LABEL, id) ELSE NoNode
    IN COALESCE(<<pubOrg, phanOrg, pubAct, phanAct>>)

sourceNode(l, nodes, row) ==
    CASE l = "participation" ->
            PublishedOrPhantom(nodes, ORGANISATION_LABEL, PHANTOM_ORG_LABEL, row.src)
      [] l = "financial" -> PolymorphicNode(nodes, row.stype, row.src)
      [] OTHER ->
            PublishedOrPhantom(nodes, ACTIVITY_LABEL, PHANTOM_ACTIVITY_LABEL, row.src)

targetNode(l, nodes, row) ==
    CASE l = "financial" -> PolymorphicNode(nodes, row.ttype, row.tgt)
      [] OTHER ->
            PublishedOrPhantom(nodes, ACTIVITY_LABEL, PHANTOM_ACTIVITY_LABEL, row.tgt)

(* ------------------------- batch merge executor ------------------------ *)
\* A relationship.  id is the identity the backend gives it when it is
\* created, code the transactiontype_code property, val the scalar
\* properties, arr the array properties; None / NullArr is an absent property.
Rel(id, s, t, type, c, v, a) ==
    [id |-> id, src |-> s, tgt |-> t, type |-> type, code |-> c, val |-> v, arr |-> a]

\* Merge patterns that are NOT the program's: CREATE (nothing ever matches),
\* and a pattern without the transactiontype_code key.
CreateAlways(l, rels, s, t, row) == {}

MergeMatchesPairOnly(l, rels, s, t, row) ==
    {r \in rels : r.src = s /\ r.tgt = t /\ r.type = NEO4J_EDGE_TYPE(l)}

\* The relationships the MERGE pattern of loader l matches for one row
MergeMatches(l, rels, s, t, row) ==
    IF l = "financial"
    THEN {r \in rels : r.src = s /\ r.tgt = t /\ r.type = NEO4J_EDGE_TYPE(l)
                        /\ r.code = row.code}
    ELSE {r \in rels : r.src = s /\ r.tgt = t /\ r.type = NEO4J_EDGE_TYPE(l)}

\* A SET clause that is NOT the program's: a property once set is kept
SetOnCreateOnly(l, r, row) ==
    [r EXCEPT !.val = IF r.val = None /\ r.arr = NullArr
                      THEN (IF l = "activity_participation" THEN None ELSE row.val)
                      ELSE r.val,
              !.arr = IF r.val = None /\ r.arr = NullArr
                      THEN (IF l = "activity_participation" THEN row.arr ELSE NullArr)
                      ELSE r.arr]

\* ON CREATE SET / ON MATCH SET / SET of loader l applied to relationship r
SetClause(l, r, row) ==
    CASE l = "participation" -> [r EXCEPT !.val = row.val]
      [] l = "activity_participation" -> [r EXCEPT !.arr = row.arr]
      [] l = "financial" -> [r EXCEPT !.code = row.code, !.val = row.val]
      [] l = "funds" -> [r EXCEPT !.val = row.val]
      [] l = "hierarchy" ->
            [r EXCEPT !.val = IF row.arr.isnull THEN None
                              ELSE IF Len(row.arr.elems) > 0 THEN row.arr.elems[1]
                              ELSE None]
      [] l = "publication" -> [r EXCEPT !.val = "primary"]
      [] l = "publication_fallback" -> [r EXCEPT !.val = "fallback"]

\* MERGE (sourceNode)-[r:TYPE {key}]->(targetNode) ON CREATE SET .. ON MATCH SET ..
MergeRel(l, rels, s, t, row) ==
    LET found == MergeMatches(l, rels, s, t, row)
        created == Rel(Cardinality(rels) + 1, s, t, NEO4J_EDGE_TYPE(l),
                       IF l = "financial" THEN row.code ELSE None, None, NullArr)
    IN IF found = {}
       THEN rels \cup {SetClause(l, created, row)}
       ELSE (rels \ found) \cup {SetClause(l, r, row) : r \in found}

\* The record RETURNed for a row whose merge did not happen
SkipRecord(row, s, t) ==
    [source_id |-> row.src, target_id |-> row.tgt,
     source_type |-> row.stype, target_type |-> row.ttype,
     source_missing |-> (s = NoNode), target_missing |-> (t = NoNode)]

\* Executors that are NOT the program's: one that MERGEs the whole pattern,
\* creating the endpoint it did not find, and one that RETURNs a record for
\* every row.
ExecRowCreatingNodes(l, g, row) ==
    LET s0 == sourceNode(l, g.nodes, row)
        t0 == targetNode(l, g.nodes, row)
        s == IF s0 = NoNode THEN Node(ACTIVITY_LABEL, row.src) ELSE s0
        t == IF t0 = NoNode THEN Node(ACTIVITY_LABEL, row.tgt) ELSE t0
    IN [g EXCEPT !.nodes = g.nodes \cup {s, t},
                 !.rels = MergeRel(l, g.rels, s, t, row),
                 !.bound = Append(g.bound, [row |-> row, src |-> s, tgt |-> t])]

ExecRowReturningAll(l, g, row) ==
    LET s == sourceNode(l, g.nodes, row)
        t == targetNode(l, g.nodes, row)
    IN IF s # NoNode /\ t # NoNode
       THEN [g EXCEPT !.rels = MergeRel(l, g.rels, s, t, row),
                      !.bound = Append(g.bound, [row |-> row, src |-> s, tgt |-> t]),
                      !.records = Append(g.records, SkipRecord(row, s, t))]
       ELSE [g EXCEPT !.records = Append(g.records, SkipRecord(row, s, t))]

\* One row of UNWIND $batch: resolve both endpoints, merge under the FOREACH
\* guard, return a record when an endpoint is null.  g is the graph and the
\* output accumulated so far.
ExecRow(l, g, row) ==
    LET s == sourceNode(l, g.nodes, row)
        t == targetNode(l, g.nodes, row)
    IN IF s # NoNode /\ t # NoNode
       THEN [g EXCEPT !.rels = MergeRel(l, g.rels, s, t, row),
                      !.bound = Append(g.bound, [row |-> row, src |-> s, tgt |-> t])]
       ELSE [g EXCEPT !.records = Append(g.records, SkipRecord(row, s, t))]

\* One row of the publication query: MATCH the published organisation and
\* the published activity (a row without both yields nothing), MERGE the
\* relationship between them, SET r.match_method.  RETURN count(*) is the
\* number of rows that got this far, the length of g.bound.
MatchMergeRow(l, g, row) ==
    LET org == OptionalMatch(g.nodes, ORGANISATION_LABEL, row.src)
        activity == OptionalMatch(g.nodes, ACTIVITY_LABEL, row.tgt)
    IN IF org # NoNode /\ activity # NoNode
       THEN [g EXCEPT !.rels = MergeRel(l, g.rels, org, activity, row),
                      !.bound = Append(g.bound, [row |-> row, src |-> org, tgt |-> activity])]
       ELSE g

\* The properties the node loader's SET clause takes from a batch item
NodeProperties(l, row) ==
    CASE l = "published_organisations" -> [name |-> row.name]
      [] l = "phantom_activities" ->
            [source_columns |-> row.source_columns,
             source_activity_ids |-> row.source_activity_ids,
             reference_count |-> row.reference_count]

\* The value of the identifying property in a batch item of a node loader
NodeKey(l, row) ==
    CASE l = "published_organisations" -> row.organisationidentifier
      [] l = "phantom_activities" -> row.phantom_activity_identifier

\* MERGE (n:Label {id: row.id}) ON CREATE SET .. ON MATCH SET .. (same clause)
MergeNode(l, g, row) ==
    LET n == Node(NEO4J_NODE_LABEL(l), NodeKey(l, row))
    IN [g EXCEPT !.nodes = g.nodes \cup {n},
                 !.props = [m \in (DOMAIN g.props) \cup {n} |->
                               IF m = n THEN NodeProperties(l, row) ELSE g.props[m]]]

RECURSIVE ExecRows(_, _, _)
ExecRows(l, g, batch) ==
    IF batch = <<>> THEN g
    ELSE ExecRows(l, IF l \in NodeLoaders THEN MergeNode(l, g, Head(batch))
                     ELSE IF l \in PublicationLoaders THEN MatchMergeRow(l, g, Head(batch))
                     ELSE ExecRow(l, g, Head(batch)),
                  Tail(batch))

\* tx.run(cypher_query, batch=batch).data() in one write transaction
RunCypher(l, nodes, rels, props, batch) ==
    ExecRows(l, [nodes |-> nodes, rels |-> rels, props |-> props,
                 records |-> <<>>, bound |-> <<>>], batch)


(* ------------------------------ skip ledger ---------------------------- *)
\* One line of the tab-separated detail log
Line(s, t, reason) == [src |-> s, tgt |-> t, reason |-> reason]

\* The header row of the detail log
Header == Line("source", "target", "HEADER")

\* `value or 'NULL'`
OrNULL(v) == IF Falsy(v) THEN "NULL" ELSE v

\* A validation that is NOT the program's: only the source is looked at
IsNullSkipSourceOnly(l, row) ==
    CASE l \in EdgeLoaders -> Falsy(row.src)
      [] l = "published_organisations" -> row.organisationidentifier = None
      [] l = "phantom_activities" -> row.phantom_activity_identifier = None
      [] l \in PublicationLoaders -> FALSE

\* The per-row validation made before a row is appended to the batch
IsNullSkip(l, row) ==
    CASE l \in {"participation", "activity_participation"} ->
            row.src = None \/ row.tgt = None
      [] l \in {"financial", "funds"} ->
            Falsy(row.src) \/ Falsy(row.tgt) \/ Falsy(row.stype) \/ Falsy(row.ttype)
      [] l = "hierarchy" -> Falsy(row.src) \/ Falsy(row.tgt)
      [] l = "published_organisations" -> row.organisationidentifier = None
      [] l = "phantom_activities" -> row.phantom_activity_identifier = None
      [] l \in PublicationLoaders -> FALSE

\* The detail line written for a row that fails the validation
NullSkipLine(l, row) ==
    CASE l \in {"participation", "activity_participation"} ->
            Line(row.src, row.tgt, "NULL_ID")
      [] l \in {"financial", "funds"} ->
            Line(OrNULL(row.src), OrNULL(row.tgt), "NULL_ID_OR_TYPE")
      [] l = "hierarchy" ->
            Line(OrNULL(row.src), OrNULL(row.tgt),
                 IF Falsy(row.src) THEN "NULL_SOURCE_ID" ELSE "NULL_TARGET_ID")

\* The item appended to the batch for a valid row
sanitised_item(l, row) ==
    IF l \in {"financial", "funds"}
    THEN [row EXCEPT !.code = IF row.code = None THEN "" ELSE row.code,
                     !.val = IF row.val = None THEN "" ELSE row.val]
    ELSE row

\* f"SOURCE_{s_type}_MISSING"
SOURCE_MISSING(s_type) ==
    CASE s_type = "ORGANISATION" -> "SOURCE_ORGANISATION_MISSING"
      [] s_type = "ACTIVITY" -> "SOURCE_ACTIVITY_MISSING"
      [] OTHER -> "SOURCE_ERROR_MISSING"

\* f"TARGET_{t_type}_MISSING"
TARGET_MISSING(t_type) ==
    CASE t_type = "ORGANISATION" -> "TARGET_ORGANISATION_MISSING"
      [] t_type = "ACTIVITY" -> "TARGET_ACTIVITY_MISSING"
      [] OTHER -> "TARGET_ERROR_MISSING"

\* dict.get(key, default) on a record returned by the executor
Get(rec, key, default) == IF key \in DOMAIN rec THEN rec[key] ELSE default

\* The if / elif chain that turns the two flags into the logged reason
ReasonOf(l, source_missing, target_missing, s_type, t_type) ==
    CASE l = "participation" ->
              IF source_missing /\ target_missing THEN "BOTH_MISSING"
              ELSE IF source_missing THEN "SOURCE_ORG_MISSING"
              ELSE IF target_missing THEN "TARGET_ACT_MISSING"
              ELSE "UNKNOWN"
      [] l = "activity_participation" ->
              IF source_missing /\ target_missing THEN "BOTH_MISSING"
              ELSE IF source_missing THEN "SOURCE_MISSING"
              ELSE IF target_missing THEN "TARGET_MISSING"
              ELSE "UNKNOWN"
      [] l \in {"financial", "funds"} ->
              IF source_missing /\ target_missing THEN "BOTH_NODES_MISSING"
              ELSE IF source_missing THEN SOURCE_MISSING(s_type)
              ELSE IF target_missing THEN TARGET_MISSING(t_type)
              ELSE "UNKNOWN"
      [] l = "hierarchy" ->
              IF source_missing /\ target_missing THEN "BOTH_NODES_MISSING"
              ELSE IF source_missing THEN "SOURCE_NODE_MISSING"
              ELSE IF target_missing THEN "TARGET_NODE_MISSING"
              ELSE "UNKNOWN_NODE_MISSING"

\* A classification that is NOT the program's: an absent flag counts as false
SkipReasonNoDefault(l, skipped_record) ==
    ReasonOf(l, Get(skipped_record, "source_missing", FALSE),
                Get(skipped_record, "target_missing", FALSE),
                Get(skipped_record, "source_type", "ERROR"),
                Get(skipped_record, "target_type", "ERROR"))

\* The reason logged for one record returned by the executor: an absent flag
\* is read as True, an absent type as 'ERROR'
SkipReason(l, skipped_record) ==
    ReasonOf(l, Get(skipped_record, "source_missing", TRUE),
                Get(skipped_record, "target_missing", TRUE),
                Get(skipped_record, "source_type", "ERROR"),
                Get(skipped_record, "target_type", "ERROR"))


(* ------------------------------ loader state --------------------------- *)
VARIABLES
    loader,                       \* which loader script this behaviour runs
    batch_size,                   \* --batch-size
    row_count,                    \* number of rows of the source table
    table,                        \* the rows of the source table read so far, in cursor order
    nodes,                        \* graph backend: nodes
    rels,                         \* graph backend: relationships
    pc,                           \* position of the loader run
    run,                          \* 1 for the first run, 2 for the re-run
    cursor,                       \* rows fetched from the server-side cursor
    pg_batch,                     \* fetched rows not yet looked at
    batch_list,                   \* rows accumulated for the next backend call
    expected_count,
    skipped_null_id_count,
    skipped_missing_node_count,
    successful_merge_operations,
    processed_count,              \* node loaders: items sent in successful calls
    grouped_activities,           \* phantom activity loader: groups not yet sent
    props,                        \* graph backend: properties set by a node loader
    detail_log,                   \* the skipped-details log file
    result,                       \* "none" while running, else "success" / "failure"
    skipped_record,               \* a record handed to the skip classification
    logged_reason,                \* the reason the classification gave for it
    faults,                       \* history: source/backend errors raised in this run
    calls,                        \* history: every backend call made so far
    first,                        \* history: the graph and detail log as the first run left them
    orch,                         \* the orchestrator: what it ran so far and its exit
    conn,                         \* get_neo4j_driver: attempts made and waits slept
    inflight,                     \* history: the skip entries of an interrupted step
    fallback_matches,             \* publication loader: the rows of its TEMP TABLE
    summary                       \* what the run reported when it ended

vars == <<loader, batch_size, row_count, table, nodes, rels, pc, run, cursor, pg_batch,
          batch_list, expected_count, skipped_null_id_count,
          skipped_missing_node_count, successful_merge_operations, processed_count,
          grouped_activities, props, detail_log, result, skipped_record,
          logged_reason, faults, calls, first, orch, conn, inflight, summary,
          fallback_matches>>

\* No orchestrator: the loader script is started on its own
NoOrchestrator ==
    [kind |-> "none", flag |-> "both", history |-> <<>>, finished |-> FALSE, code |-> 0]

\* Nothing reported: the run is going on, or it ended without a summary
NoSummary ==
    [fields |-> {}, null |-> 0, missing |-> 0, merges |-> 0, warning |-> FALSE]

\* The summary of a run that reached its reporting step: the counters, and
\* the warning written when the merge count differs from the source rows
\* left after the skips.  load_participation_edges and load_financial_edges
\* compare the two only when the relationship counts could be read.
Reconciled(l, e, n, m, s, count_ok) ==
    [fields |-> {"null", "missing", "merges"}, null |-> n, missing |-> m, merges |-> s,
     warning |-> /\ s # e - (n + m)
                 /\ l \in {"participation", "financial"} => count_ok]

\* Whether the relationship count after the load could be read.  Only the
\* two loaders whose get_neo4j_edge_count returns None on an error, and whose
\* report depends on it, can tell the difference.
CountOutcomes(l) == IF l \in {"participation", "financial"} THEN BOOLEAN ELSE {TRUE}

\* What a run reports when it ends, by the way it ends: on an empty table
\* ("empty"), on a failed COUNT query ("query_failed"), on a fetch error
\* ("fetch_error"), at the end of the data ("ended"), on a failed batch that
\* stops the run ("aborted"), after a failed final batch ("final_failed") or
\* on KeyboardInterrupt ("interrupted").  e, n, m, s are expected_count and
\* the three counters (processed_count for s in a node loader).
Report(l, how, e, n, m, s, count_ok) ==
    CASE how = "empty" ->
            IF l \in {"participation", "activity_participation", "financial"}
            THEN [NoSummary EXCEPT !.fields = {"null", "missing", "merges"}]
            ELSE IF l = "funds" THEN [NoSummary EXCEPT !.fields = {"null", "missing"}]
            ELSE IF l \in PublicationLoaders THEN [NoSummary EXCEPT !.fields = {"merges"}]
            ELSE NoSummary
      [] how \in {"ended", "final_failed"} \/ (how = "fetch_error" /\ l # "hierarchy")
                \/ (how = "interrupted" /\ l = "funds") ->
            IF l \in EdgeLoaders THEN Reconciled(l, e, n, m, s, count_ok)
            ELSE IF l \in NodeLoaders
            THEN [NoSummary EXCEPT !.fields = {"null", "merges"}, !.null = n, !.merges = s]
            ELSE IF how = "fetch_error"
            THEN [NoSummary EXCEPT !.fields = {"merges"}, !.merges = s]
            ELSE [NoSummary EXCEPT !.fields = {"missing", "merges"},
                                   !.missing = m, !.merges = s]
      [] OTHER -> NoSummary

\* No operator interrupt has arrived.  After one: the skip entries the
\* interrupted step had to record, those it counted and those it logged
NoInterrupt == [hit |-> FALSE, due |-> 0, counted |-> 0, logged |-> 0]

\* The connections a loader run works with: get_neo4j_driver and
\* get_postgres_connection have returned them
Connected ==
    [script |-> "none", state |-> "connected", attempt |-> 0, slept |-> <<>>,
     pg |-> "connected"]

\* Loaders whose graph batch is accumulated across source fetches
Accumulating(l) == l = "hierarchy"

\* Loaders that open the detail log with mode 'a' (the others use 'w')
AppendsDetailLog(l) == l \in {"participation", "activity_participation", "financial"}

RECURSIVE ScanRows(_, _, _)
\* The `for row in batch` loop up to the next backend call: a row failing the
\* validation is counted and logged, any other row is appended to the batch.
\* The accumulating loader leaves the loop as soon as the batch is full.
ScanRows(l, bs, st) ==
    IF st.pg_batch = <<>> THEN st
    ELSE IF Accumulating(l) /\ Len(st.batch_list) >= bs THEN st
    ELSE LET row == Head(st.pg_batch)
         IN IF IsNullSkip(l, row)
            THEN ScanRows(l, bs,
                    [st EXCEPT !.pg_batch = Tail(st.pg_batch),
                               !.nulls = st.nulls + 1,
                               !.log = IF l \in EdgeLoaders
                                       THEN Append(st.log, NullSkipLine(l, row))
                                       ELSE st.log])
            ELSE ScanRows(l, bs,
                    [st EXCEPT !.pg_batch = Tail(st.pg_batch),
                               !.batch_list = Append(st.batch_list, sanitised_item(l, row))])

\* `x not in list`
NotIn(x, list) == \A i \in 1..Len(list) : list[i] # x

\* grouped_activities after one row with a non-null identifier.  The entry of
\* the identifier is made by the first access, which the `and` guards reach
\* only for a truthy source_column or source_activity_id.
GroupRow(grouped, row) ==
    LET id_val == row.phantom_activity_identifier
        source_col == row.source_column
        source_act_id == row.source_activity_id
        known == \E i \in 1..Len(grouped) : grouped[i].phantom_activity_identifier = id_val
        accessed == ~Falsy(source_col) \/ ~Falsy(source_act_id)
        with == IF known \/ ~accessed THEN grouped
                ELSE Append(grouped, [phantom_activity_identifier |-> id_val,
                                      source_columns |-> <<>>,
                                      source_activity_ids |-> <<>>])
    IN [i \in 1..Len(with) |->
          IF with[i].phantom_activity_identifier # id_val THEN with[i]
          ELSE [with[i] EXCEPT
                  !.source_columns =
                      IF ~Falsy(source_col) /\ NotIn(source_col, @)
                      THEN Append(@, source_col) ELSE @,
                  !.source_activity_ids =
                      IF ~Falsy(source_act_id) /\ NotIn(source_act_id, @)
                      THEN Append(@, source_act_id) ELSE @]]

RECURSIVE GroupRows(_)
\* The grouping loop of the phantom activity loader over one fetched batch
GroupRows(st) ==
    IF st.pg_batch = <<>> THEN st
    ELSE LET row == Head(st.pg_batch)
         IN IF IsNullSkip("phantom_activities", row)
            THEN GroupRows([st EXCEPT !.pg_batch = Tail(st.pg_batch),
                                      !.nulls = st.nulls + 1])
            ELSE GroupRows([st EXCEPT !.pg_batch = Tail(st.pg_batch),
                                      !.grouped = GroupRow(st.grouped, row)])

\* batch_list built from grouped_activities.items()
GroupedItems(grouped) ==
    [i \in 1..Len(grouped) |->
        [phantom_activity_identifier |-> grouped[i].phantom_activity_identifier,
         source_columns |-> grouped[i].source_columns,
         source_activity_ids |-> grouped[i].source_activity_ids,
         reference_count |-> Len(grouped[i].source_activity_ids)]]

\* The rows of one fetch are looked at: grouping for the phantom activity
\* loader (whose batch is due once batch_size identifiers are grouped),
\* validation and batching for every other loader.
Scan(l, bs, st) ==
    IF l = "phantom_activities"
    THEN LET g == GroupRows(st)
         IN [g EXCEPT !.batch_list = IF Len(g.grouped) >= bs
                                     THEN GroupedItems(g.grouped) ELSE <<>>]
    ELSE ScanRows(l, bs, st)

\* The argument of fetchmany: the fallback pass reads batch_size * 5 rows
FetchSize(l, bs) == IF l = "publication_fallback" THEN bs * 5 ELSE bs

\* Whether the loop stopped because a backend call is due
CallDue(l, bs, st) ==
    IF Accumulating(l) THEN Len(st.batch_list) >= bs
    ELSE st.batch_list # <<>>

\* A loop that would log the first returned record only
SkipLinesFirstOnly(l, records) ==
    IF records = <<>> THEN <<>>
    ELSE <<Line(Get(Head(records), "source_id", "ERROR"),
                Get(Head(records), "target_id", "ERROR"),
                SkipReason(l, Head(records)))>>

RECURSIVE SkipLines(_, _)
\* The detail lines written for the records returned by one backend call
SkipLines(l, records) ==
    IF records = <<>> THEN <<>>
    ELSE <<Line(Get(Head(records), "source_id", "ERROR"),
                Get(Head(records), "target_id", "ERROR"),
                SkipReason(l, Head(records)))>> \o SkipLines(l, Tail(records))

Init ==
    /\ loader \in Loaders
    /\ batch_size \in 1..MaxBatchSize
    /\ row_count \in 0..MaxRows
    /\ table = <<>>
    /\ nodes = Graph0
    /\ rels = {}
    /\ pc = "init"
    /\ run = 1
    /\ cursor = 0
    /\ pg_batch = <<>>
    /\ batch_list = <<>>
    /\ expected_count = 0
    /\ skipped_null_id_count = 0
    /\ skipped_missing_node_count = 0
    /\ successful_merge_operations = 0
    /\ processed_count = 0
    /\ grouped_activities = <<>>
    /\ props = [n \in {} |-> None]
    /\ detail_log = <<>>
    /\ result = "none"
    /\ skipped_record = [source_id |-> None, target_id |-> None]
    /\ logged_reason = "none"
    /\ faults = 0
    /\ calls = <<>>
    /\ first = [done |-> FALSE, nodes |-> {}, rels |-> {}, log |-> <<>>]
    /\ inflight = NoInterrupt
    /\ fallback_matches = <<>>
    /\ summary = NoSummary
    /\ orch = NoOrchestrator
    /\ conn = Connected


Min(a, b) == IF a < b THEN a ELSE b

\* A record of one backend call, kept for the properties below: the batch
\* sent, the nodes of the graph when it was sent, and what the call returned
Call(ok, batch, out) ==
    [run |-> run, ok |-> ok, batch |-> batch, nodes |-> nodes,
     records |-> out.records, bound |-> out.bound]

counters == <<skipped_null_id_count, skipped_missing_node_count,
              successful_merge_operations, processed_count>>
graph == <<nodes, rels, props>>
classifier == <<skipped_record, logged_reason>>
inputs == <<loader, batch_size, row_count, table, classifier, orch, conn, inflight,
            fallback_matches>>

\* Entry of the load function up to the batch loop: count the source rows,
\* return at once on an empty table, otherwise open the cursor and (edge
\* loaders) the detail log.
Start ==
    /\ pc = "init"
    /\ expected_count' = row_count
    /\ skipped_null_id_count' = 0
    /\ skipped_missing_node_count' = 0
    /\ successful_merge_operations' = 0
    /\ processed_count' = 0
    /\ grouped_activities' = <<>>
    /\ cursor' = 0
    /\ pg_batch' = <<>>
    /\ batch_list' = <<>>
    /\ faults' = 0
    /\ IF row_count = 0
       THEN /\ detail_log' = IF loader \in EdgeLoaders THEN <<Header>> ELSE detail_log
            /\ result' = "success"
            /\ pc' = "done"
            /\ summary' = Report(loader, "empty", 0, 0, 0, 0, TRUE)
       ELSE /\ detail_log' = IF loader \notin EdgeLoaders THEN detail_log
                             ELSE IF AppendsDetailLog(loader) /\ detail_log # <<>>
                             THEN detail_log ELSE <<Header>>
            /\ result' = "none"
            /\ pc' = "streaming"
            /\ summary' = NoSummary
    /\ UNCHANGED <<inputs, graph, run, calls, first>>

\* get_pg_count returns None (the COUNT query failed): the run returns False
SourceQueryFail ==
    /\ pc = "init"
    /\ result' = "failure"
    /\ pc' = "done"
    /\ faults' = 1
    /\ summary' = Report(loader, "query_failed", 0, 0, 0, 0, TRUE)
    /\ skipped_null_id_count' = 0
    /\ skipped_missing_node_count' = 0
    /\ successful_merge_operations' = 0
    /\ processed_count' = 0
    /\ UNCHANGED <<inputs, graph, run, cursor, pg_batch, batch_list, expected_count,
                   grouped_activities, detail_log, calls, first>>

\* pg_cursor.fetchmany(batch_size) returns rows, which are looked at up to the
\* next backend call.  Rows are drawn when they are first read and stay in
\* the table afterwards.
Fetch ==
    /\ pc = "streaming"
    /\ cursor < row_count
    /\ LET n == Min(FetchSize(loader, batch_size), row_count - cursor)
           unread == IF cursor + n > Len(table) THEN cursor + n - Len(table) ELSE 0
       IN \E fresh \in Tables(SourceRows(loader), unread) :
            LET st == Scan(loader, batch_size,
                         [pg_batch |-> SubSeq(table \o fresh, cursor + 1, cursor + n),
                          batch_list |-> IF Accumulating(loader) THEN batch_list ELSE <<>>,
                          grouped |-> grouped_activities,
                          nulls |-> 0, log |-> <<>>])
            IN /\ CursorOrder(loader, table \o fresh)
               /\ table' = table \o fresh
               /\ cursor' = cursor + n
               /\ pg_batch' = st.pg_batch
               /\ batch_list' = st.batch_list
               /\ grouped_activities' = st.grouped
               /\ skipped_null_id_count' = skipped_null_id_count + st.nulls
               /\ detail_log' = detail_log \o st.log
               /\ pc' = IF CallDue(loader, batch_size, st) THEN "merge" ELSE "streaming"
    /\ UNCHANGED <<fallback_matches,
                   loader, batch_size, row_count, classifier, orch, conn, inflight, graph, run,
                   expected_count,
                   skipped_missing_node_count, successful_merge_operations,
                   processed_count, result, faults, calls, first, summary>>

\* pg_cursor.fetchmany raises psycopg2.Error: the hierarchy loader lets it
\* reach main (False), every other loader leaves the loop and returns True.
FetchError ==
    /\ pc = "streaming"
    /\ faults' = faults + 1
    /\ result' = IF loader = "hierarchy" THEN "failure" ELSE "success"
    /\ pc' = "done"
    /\ \E count_ok \in CountOutcomes(loader) :
          summary' = Report(loader, "fetch_error", expected_count, skipped_null_id_count,
                            skipped_missing_node_count,
                            IF loader \in NodeLoaders THEN processed_count
                            ELSE successful_merge_operations, count_ok)
    /\ UNCHANGED <<inputs, graph, run, cursor, pg_batch, batch_list, expected_count,
                   counters, grouped_activities, detail_log, calls, first>>

\* The backend call for the current batch succeeds: counters and detail lines
\* are updated from the returned records, then the row loop goes on.
Merge ==
    /\ pc = "merge"
    /\ LET out == RunCypher(loader, nodes, rels, props, batch_list)
           st == ScanRows(loader, batch_size,
                    [pg_batch |-> pg_batch, batch_list |-> <<>>, grouped |-> <<>>,
                     nulls |-> 0, log |-> <<>>])
       IN /\ nodes' = out.nodes
          /\ rels' = out.rels
          /\ props' = out.props
          /\ IF loader \in EdgeLoaders
             THEN /\ successful_merge_operations' =
                        successful_merge_operations + (Len(batch_list) - Len(out.records))
                  /\ skipped_missing_node_count' =
                        skipped_missing_node_count + Len(out.records)
                  /\ processed_count' = processed_count
             ELSE IF loader \in PublicationLoaders
             THEN /\ successful_merge_operations' =
                        successful_merge_operations + Len(out.bound)
                  /\ skipped_missing_node_count' =
                        skipped_missing_node_count + (Len(batch_list) - Len(out.bound))
                  /\ processed_count' = processed_count + Len(batch_list)
             ELSE /\ processed_count' = processed_count + Len(batch_list)
                  /\ UNCHANGED <<successful_merge_operations, skipped_missing_node_count>>
          /\ skipped_null_id_count' = skipped_null_id_count + st.nulls
          /\ detail_log' = detail_log \o SkipLines(loader, out.records) \o st.log
          /\ pg_batch' = st.pg_batch
          /\ batch_list' = st.batch_list
          /\ grouped_activities' = <<>>
          /\ pc' = IF CallDue(loader, batch_size, st) THEN "merge" ELSE "streaming"
          /\ calls' = Append(calls, Call(TRUE, batch_list, out))
    /\ UNCHANGED <<inputs, run, cursor, expected_count, result, faults, first, summary>>

\* The backend call for the current batch raises: funds logs and goes on with
\* the next batch, so do the publication passes, which count the batch as
\* skipped; every other loader stops the run and returns False.
MergeFail ==
    /\ pc = "merge"
    /\ faults' = faults + 1
    /\ calls' = Append(calls, Call(FALSE, batch_list, [records |-> <<>>, bound |-> <<>>]))
    /\ IF loader = "funds" \/ loader \in PublicationLoaders
       THEN /\ pc' = "streaming"
            /\ result' = result
            /\ summary' = summary
       ELSE /\ pc' = "done"
            /\ result' = "failure"
            /\ summary' = Report(loader, "aborted", expected_count, skipped_null_id_count,
                                 skipped_missing_node_count,
                                 successful_merge_operations, TRUE)
    /\ skipped_missing_node_count' =
          IF loader \in PublicationLoaders
          THEN skipped_missing_node_count + Len(batch_list)
          ELSE skipped_missing_node_count
    /\ UNCHANGED <<inputs, graph, run, cursor, pg_batch, batch_list, expected_count,
                   skipped_null_id_count, successful_merge_operations, processed_count,
                   grouped_activities, detail_log, first>>

\* An end of the loop that is NOT the program's: the loader reports and
\* returns without sending what is left in its batch
EndOfDataWithoutFinalBatch ==
    /\ pc = "streaming"
    /\ cursor = row_count
    /\ pc' = "done"
    /\ result' = "success"
    /\ summary' = Report(loader, "ended", expected_count, skipped_null_id_count,
                         skipped_missing_node_count, successful_merge_operations, TRUE)
    /\ UNCHANGED <<inputs, graph, run, cursor, pg_batch, batch_list, expected_count,
                   counters, grouped_activities, detail_log, faults, calls, first>>

\* fetchmany returns no row: the loop ends.  The accumulating loader still has
\* to send what is left in its batch, the others report and return True.
EndOfData ==
    /\ pc = "streaming"
    /\ cursor = row_count
    /\ IF Accumulating(loader) /\ batch_list # <<>>
       THEN /\ pc' = "final"
            /\ result' = result
            /\ summary' = summary
       ELSE /\ pc' = "done"
            /\ result' = "success"
            /\ \E count_ok \in CountOutcomes(loader) :
                  summary' = Report(loader, "ended", expected_count,
                                    skipped_null_id_count, skipped_missing_node_count,
                                    IF loader \in NodeLoaders THEN processed_count
                                    ELSE successful_merge_operations, count_ok)
    /\ UNCHANGED <<inputs, graph, run, cursor, pg_batch, batch_list, expected_count,
                   counters, grouped_activities, detail_log, faults, calls, first>>

\* "Process the final batch" of the accumulating loader, backend call succeeds
FinalMerge ==
    /\ pc = "final"
    /\ LET out == RunCypher(loader, nodes, rels, props, batch_list)
       IN /\ nodes' = out.nodes
          /\ rels' = out.rels
          /\ props' = out.props
          /\ successful_merge_operations' =
                successful_merge_operations + (Len(batch_list) - Len(out.records))
          /\ skipped_missing_node_count' = skipped_missing_node_count + Len(out.records)
          /\ detail_log' = detail_log \o SkipLines(loader, out.records)
          /\ calls' = Append(calls, Call(TRUE, batch_list, out))
    /\ pc' = "done"
    /\ result' = "success"
    /\ summary' = Report(loader, "ended", expected_count, skipped_null_id_count,
                         skipped_missing_node_count', successful_merge_operations', TRUE)
    /\ UNCHANGED <<inputs, run, cursor, pg_batch, batch_list, expected_count,
                   skipped_null_id_count, processed_count, grouped_activities,
                   faults, first>>

\* The final batch fails: "Allow summary reporting even if final batch fails"
FinalMergeFail ==
    /\ pc = "final"
    /\ faults' = faults + 1
    /\ calls' = Append(calls, Call(FALSE, batch_list, [records |-> <<>>, bound |-> <<>>]))
    /\ pc' = "done"
    /\ result' = "success"
    /\ summary' = Report(loader, "final_failed", expected_count, skipped_null_id_count,
                         skipped_missing_node_count, successful_merge_operations, TRUE)
    /\ UNCHANGED <<inputs, graph, run, cursor, pg_batch, batch_list, expected_count,
                   counters, grouped_activities, detail_log, first>>

\* The same loader is started again on the same source table and graph backend
Rerun ==
    /\ pc = "done"
    /\ run = 1
    /\ first' = [done |-> TRUE, nodes |-> nodes, rels |-> rels, log |-> detail_log]
    /\ run' = 2
    /\ pc' = "init"
    /\ result' = "none"
    /\ summary' = NoSummary
    /\ UNCHANGED <<inputs, graph, cursor, pg_batch, batch_list, expected_count,
                   counters, grouped_activities, detail_log, faults, calls>>

(* ------------------------- skip classification ------------------------ *)
\* What a flag or type of a returned record can be: a value, or not there
Flags == {"true", "false", "absent"}
Types == {"ORGANISATION", "ACTIVITY", "absent"}

\* A record as session.execute_write hands it back, with the given keys
RecordWith(sm, tm, st, tt) ==
    LET keys == {"source_id", "target_id"}
                  \cup (IF sm = "absent" THEN {} ELSE {"source_missing"})
                  \cup (IF tm = "absent" THEN {} ELSE {"target_missing"})
                  \cup (IF st = "absent" THEN {} ELSE {"source_type"})
                  \cup (IF tt = "absent" THEN {} ELSE {"target_type"})
    IN [k \in keys |->
          CASE k = "source_missing" -> (sm = "true")
            [] k = "target_missing" -> (tm = "true")
            [] k = "source_type" -> st
            [] k = "target_type" -> tt
            [] OTHER -> "m"]

\* The classification of one record, for every shape the record can have
ClassifyInit ==
    /\ loader \in EdgeLoaders
    /\ batch_size = 1
    /\ row_count = 0
    /\ table = <<>>
    /\ nodes = Graph0
    /\ rels = {}
    /\ pc = "classify"
    /\ run = 1
    /\ cursor = 0
    /\ pg_batch = <<>>
    /\ batch_list = <<>>
    /\ expected_count = 0
    /\ skipped_null_id_count = 0
    /\ skipped_missing_node_count = 0
    /\ successful_merge_operations = 0
    /\ processed_count = 0
    /\ grouped_activities = <<>>
    /\ props = [n \in {} |-> None]
    /\ detail_log = <<>>
    /\ result = "none"
    /\ \E sm \in Flags, tm \in Flags, st \in Types, tt \in Types :
          skipped_record = RecordWith(sm, tm, st, tt)
    /\ logged_reason = "none"
    /\ faults = 0
    /\ calls = <<>>
    /\ first = [done |-> FALSE, nodes |-> {}, rels |-> {}, log |-> <<>>]
    /\ inflight = NoInterrupt
    /\ fallback_matches = <<>>
    /\ summary = NoSummary
    /\ orch = NoOrchestrator
    /\ conn = Connected

\* The body of `for skipped_record in skipped_in_batch` up to the reason
Classify ==
    /\ pc = "classify"
    /\ logged_reason' = SkipReason(loader, skipped_record)
    /\ pc' = "classified"
    /\ UNCHANGED <<fallback_matches,
                   loader, batch_size, row_count, table, skipped_record, orch, conn, inflight,
                   graph, run,
                   cursor, pg_batch, batch_list, expected_count, counters,
                   grouped_activities, detail_log, result, faults, calls, first, summary>>

ClassifyNext == Classify

ClassifySpec == ClassifyInit /\ [][ClassifyNext]_vars

\* One run of one loader, with every source and backend error it can meet
Next ==
    \/ Start
    \/ SourceQueryFail
    \/ Fetch
    \/ FetchError
    \/ Merge
    \/ MergeFail
    \/ EndOfData
    \/ FinalMerge
    \/ FinalMergeFail

Spec == Init /\ [][Next]_vars

\* Two runs of one loader on unchanged source data, neither meeting an error
RerunNext ==
    \/ Start
    \/ Fetch
    \/ Merge
    \/ EndOfData
    \/ FinalMerge
    \/ Rerun

RerunSpec == Init /\ [][RerunNext]_vars

\* The exit status main() gives the process for the outcome of the load
\* function: 0 for True, 1 for False, an escaped exception or an interrupt
ExitCode(r) == IF r = "success" THEN 0 ELSE 1

(* ------------------------------ connections ---------------------------- *)
\* `for attempt in range(5)`
MaxAttempts == 5

\* The wait after a failed attempt, in seconds: 2**(attempt + 1)
wait_time_linear(attempt) == 2 * (attempt + 1)

wait_time(attempt) == 2^(attempt + 1)

\* The script that runs a loader
ScriptOf(l) ==
    CASE l = "participation" -> "load_participation_edges.py"
      [] l = "activity_participation" -> "load_activity_participation_edges.py"
      [] l = "financial" -> "load_financial_edges.py"
      [] l = "funds" -> "load_funds_edges.py"
      [] l = "hierarchy" -> "load_hierarchy_edges.py"
      [] l = "published_organisations" -> "load_published_organisations.py"
      [] l = "phantom_activities" -> "load_phantom_activities.py"
      [] l \in PublicationLoaders -> "load_publication_edges.py"

\* Scripts that connect like the others and whose load is not followed here
ConnectOnly == {"load_published_activities.py", "load_graph.py"}

\* load_graph.py has a get_neo4j_driver of its own: one attempt, made after
\* a wait of two seconds.  Every other script retries (db_utils, and the
\* copy of it in load_published_activities.py).
Retries(script) == script # "load_graph.py"

\* load_hierarchy_edges.py connects to PostgreSQL first
PgFirst(script) == script = "load_hierarchy_edges.py"

\* A script at the start of main(), before any connection
ConnectInit ==
    /\ loader \in Loaders
    /\ conn \in {[script |-> sc, state |-> "connecting", attempt |-> 0, slept |-> <<>>,
                   pg |-> "none"] : sc \in {ScriptOf(loader)} \cup ConnectOnly}
    /\ batch_size \in 1..MaxBatchSize
    /\ row_count \in 0..MaxConnectRows
    /\ pc = "connect"
    /\ table = <<>>
    /\ nodes = Graph0
    /\ rels = {}
    /\ run = 1
    /\ cursor = 0
    /\ pg_batch = <<>>
    /\ batch_list = <<>>
    /\ expected_count = 0
    /\ skipped_null_id_count = 0
    /\ skipped_missing_node_count = 0
    /\ successful_merge_operations = 0
    /\ processed_count = 0
    /\ grouped_activities = <<>>
    /\ props = [n \in {} |-> None]
    /\ detail_log = <<>>
    /\ result = "none"
    /\ skipped_record = [source_id |-> None, target_id |-> None]
    /\ logged_reason = "none"
    /\ faults = 0
    /\ calls = <<>>
    /\ first = [done |-> FALSE, nodes |-> {}, rels |-> {}, log |-> <<>>]
    /\ orch = NoOrchestrator
    /\ inflight = NoInterrupt
    /\ fallback_matches = <<>>
    /\ summary = NoSummary

\* Where main() goes on once both connections are there
Loading(c) ==
    IF c.state = "connected" /\ c.pg = "connected"
    THEN (IF c.script \in ConnectOnly THEN "connected" ELSE "init")
    ELSE "connect"

\* One attempt of get_neo4j_driver succeeds: the driver is returned
Neo4jAttemptOk ==
    /\ pc = "connect"
    /\ conn.state = "connecting"
    /\ PgFirst(conn.script) => conn.pg = "connected"
    /\ conn' = [conn EXCEPT !.state = "connected",
                            !.slept = IF Retries(conn.script) THEN @ ELSE <<2>>]
    /\ pc' = Loading(conn')
    /\ UNCHANGED <<fallback_matches,
                   loader, batch_size, row_count, table, classifier, orch, inflight,
                   graph, run, cursor, pg_batch, batch_list, expected_count, counters,
                   grouped_activities, detail_log, result, faults, calls, first,
                   summary>>

\* One attempt of get_neo4j_driver raises: sleep and try again while
\* attempt < 4, else sys.exit(1).  The function of load_graph.py exits at once,
\* before or after its wait of two seconds.
Neo4jAttemptFail ==
    /\ pc = "connect"
    /\ conn.state = "connecting"
    /\ PgFirst(conn.script) => conn.pg = "connected"
    /\ IF Retries(conn.script) /\ conn.attempt < MaxAttempts - 1
       THEN /\ conn' = [conn EXCEPT !.attempt = @ + 1,
                                    !.slept = Append(@, wait_time(conn.attempt))]
            /\ UNCHANGED <<pc, result>>
       ELSE /\ \E waited \in (IF Retries(conn.script) THEN {conn.slept}
                               ELSE {<<>>, <<2>>}) :
                  conn' = [conn EXCEPT !.state = "failed", !.slept = waited]
            /\ pc' = "done"
            /\ result' = "failure"
    /\ UNCHANGED <<fallback_matches,
                   loader, batch_size, row_count, table, classifier, orch, inflight,
                   graph, run, cursor, pg_batch, batch_list, expected_count, counters,
                   grouped_activities, detail_log, faults, calls, first, summary>>

\* get_postgres_connection returns the connection
PostgresOk ==
    /\ pc = "connect"
    /\ conn.pg = "none"
    /\ PgFirst(conn.script) \/ conn.state = "connected"
    /\ conn' = [conn EXCEPT !.pg = "connected"]
    /\ pc' = Loading(conn')
    /\ UNCHANGED <<fallback_matches,
                   loader, batch_size, row_count, table, classifier, orch, inflight,
                   graph, run, cursor, pg_batch, batch_list, expected_count, counters,
                   grouped_activities, detail_log, result, faults, calls, first,
                   summary>>

\* psycopg2.connect raises: get_postgres_connection makes one attempt, then
\* sys.exit(1)
PostgresFail ==
    /\ pc = "connect"
    /\ conn.pg = "none"
    /\ PgFirst(conn.script) \/ conn.state = "connected"
    /\ conn' = [conn EXCEPT !.pg = "failed"]
    /\ pc' = "done"
    /\ result' = "failure"
    /\ UNCHANGED <<fallback_matches,
                   loader, batch_size, row_count, table, classifier, orch, inflight,
                   graph, run, cursor, pg_batch, batch_list, expected_count, counters,
                   grouped_activities, detail_log, faults, calls, first, summary>>

\* The steps of connection establishment
ConnectStep ==
    \/ Neo4jAttemptOk
    \/ Neo4jAttemptFail
    \/ PostgresOk
    \/ PostgresFail

\* One script from the start of main(): the connections, then the run with
\* every source and backend error it can meet.  Every connection attempt
\* returns or raises, and every wait ends.
ConnectNext ==
    \/ Neo4jAttemptOk
    \/ Neo4jAttemptFail
    \/ PostgresOk
    \/ PostgresFail
    \/ Start
    \/ SourceQueryFail
    \/ Fetch
    \/ FetchError
    \/ Merge
    \/ MergeFail
    \/ EndOfData
    \/ FinalMerge
    \/ FinalMergeFail

ConnectSpec == ConnectInit /\ [][ConnectNext]_vars /\ WF_vars(ConnectStep)

(* ------------------------------ interrupts ----------------------------- *)
\* What the run returns when KeyboardInterrupt is raised inside the batch
\* loop: load_funds_edges catches it, reports and returns True, every other
\* loader lets it reach main, which sets success to False
Interrupted(l) == IF l = "funds" THEN "success" ELSE "failure"

\* KeyboardInterrupt arrives while the rows of a fetch are looked at: some of
\* the rows failing the validation have been counted and logged by then, and
\* for the row being handled the counter may have been incremented without
\* its line being written yet (the increment precedes the write).
InterruptScan ==
    /\ pc = "streaming"
    /\ cursor < row_count
    /\ LET n == Min(FetchSize(loader, batch_size), row_count - cursor)
           unread == IF cursor + n > Len(table) THEN cursor + n - Len(table) ELSE 0
       IN \E fresh \in Tables(SourceRows(loader), unread) :
            LET st == Scan(loader, batch_size,
                         [pg_batch |-> SubSeq(table \o fresh, cursor + 1, cursor + n),
                          batch_list |-> IF Accumulating(loader) THEN batch_list ELSE <<>>,
                          grouped |-> grouped_activities,
                          nulls |-> 0, log |-> <<>>])
            IN /\ CursorOrder(loader, table \o fresh)
               /\ table' = table \o fresh
               /\ cursor' = cursor + n
               /\ \E logged \in 0..st.nulls, counted \in 0..st.nulls :
                     /\ counted \in {logged, logged + 1}
                     /\ skipped_null_id_count' = skipped_null_id_count + counted
                     /\ detail_log' = detail_log \o SubSeq(st.log, 1, logged)
                     /\ inflight' = [hit |-> TRUE, due |-> st.nulls,
                                     counted |-> counted, logged |-> logged]
    /\ pc' = "done"
    /\ result' = Interrupted(loader)
    /\ summary' = Report(loader, "interrupted", expected_count, skipped_null_id_count',
                         skipped_missing_node_count, successful_merge_operations, TRUE)
    /\ UNCHANGED <<fallback_matches,
                   loader, batch_size, row_count, classifier, orch, conn, graph, run,
                   pg_batch, batch_list, expected_count, skipped_missing_node_count,
                   successful_merge_operations, processed_count, grouped_activities,
                   faults, calls, first>>

\* KeyboardInterrupt arrives during the backend call, which is then not
\* recorded at all (the transaction committed or not), or after it returned:
\* both counters have been raised by then and the lines of the returned
\* records are being written, one by one.
InterruptMerge ==
    /\ pc \in {"merge", "final"}
    /\ LET out == RunCypher(loader, nodes, rels, props, batch_list)
           due == Len(out.records)
       IN \/ /\ \/ /\ nodes' = out.nodes
                     /\ rels' = out.rels
                     /\ props' = out.props
                  \/ UNCHANGED graph
             /\ inflight' = [hit |-> TRUE, due |-> due, counted |-> 0, logged |-> 0]
             /\ UNCHANGED <<counters, detail_log, calls>>
          \/ /\ nodes' = out.nodes
             /\ rels' = out.rels
             /\ props' = out.props
             /\ successful_merge_operations' =
                   successful_merge_operations + (Len(batch_list) - due)
             /\ skipped_missing_node_count' = skipped_missing_node_count + due
             /\ \E logged \in 0..due :
                   /\ detail_log' = detail_log
                                       \o SubSeq(SkipLines(loader, out.records), 1, logged)
                   /\ inflight' = [hit |-> TRUE, due |-> due,
                                   counted |-> due, logged |-> logged]
             /\ calls' = Append(calls, Call(TRUE, batch_list, out))
             /\ UNCHANGED <<skipped_null_id_count, processed_count>>
    /\ pc' = "done"
    /\ result' = Interrupted(loader)
    /\ summary' = Report(loader, "interrupted", expected_count, skipped_null_id_count,
                         skipped_missing_node_count', successful_merge_operations', TRUE)
    /\ UNCHANGED <<fallback_matches,
                   loader, batch_size, row_count, table, classifier, orch, conn, run,
                   cursor, pg_batch, batch_list, expected_count, grouped_activities,
                   faults, first>>

InterruptInit == Init /\ loader \in EdgeLoaders

\* One run of one edge loader that meets no error and may be interrupted
InterruptNext ==
    \/ Start
    \/ Fetch
    \/ Merge
    \/ EndOfData
    \/ FinalMerge
    \/ InterruptScan
    \/ InterruptMerge

InterruptSpec == InterruptInit /\ [][InterruptNext]_vars

\* The same edge loader is started again after the source table was emptied
RerunEmptied ==
    /\ pc = "done"
    /\ run = 1
    /\ row_count > 0
    /\ first' = [done |-> TRUE, nodes |-> nodes, rels |-> rels, log |-> detail_log]
    /\ run' = 2
    /\ row_count' = 0
    /\ table' = <<>>
    /\ pc' = "init"
    /\ result' = "none"
    /\ summary' = NoSummary
    /\ UNCHANGED <<fallback_matches,
                   loader, batch_size, classifier, orch, conn, inflight, graph, cursor,
                   pg_batch,
                   batch_list, expected_count, counters, grouped_activities,
                   detail_log, faults, calls>>

LogInit == Init /\ loader \in EdgeLoaders

\* Two runs of one edge loader that meet no error, the second one over the
\* same source table or over the emptied one
LogNext ==
    \/ Start
    \/ Fetch
    \/ Merge
    \/ EndOfData
    \/ FinalMerge
    \/ Rerun
    \/ RerunEmptied

LogSpec == LogInit /\ [][LogNext]_vars

(* ----------------------------- orchestrators --------------------------- *)
\* load_graph_sequential.py: the scripts it runs, in this order
scripts ==
    <<"load_published_activities.py", "load_published_organisations.py",
      "load_phantom_activities.py", "load_phantom_organisations.py",
      "load_publication_edges.py", "load_hierarchy_edges.py",
      "load_participation_edges.py", "load_funds_edges.py">>

\* load_graph.py: the dbt models loaded as nodes and as edges, in this order
NODE_CONFIGS ==
    <<"published_activities", "published_organisations",
      "phantom_organisations", "phantom_activities">>
EDGE_CONFIGS == <<"participation_links", "financial_links">>

\* The steps of an orchestrated run.  load_graph.py leaves the edges out
\* with --nodes alone and the nodes out with --edges alone.
Steps(o) ==
    IF o.kind = "sequential" THEN scripts
    ELSE (IF o.flag = "edges" THEN <<>> ELSE NODE_CONFIGS)
            \o (IF o.flag = "nodes" THEN <<>> ELSE EDGE_CONFIGS)

\* How one step can end: without any error ("ok"); with an error the step
\* does not pass on, so that it ends like a clean one ("swallowed": a loader
\* script that leaves its loop on a fetch error and exits 0, a load_nodes
\* batch whose exception is printed); or with an error it passes on
\* ("failed": a non-zero exit status, an exception reaching main)
Outcomes == {"ok", "swallowed", "failed"}

\* The steps that load nodes
NodeSteps ==
    {scripts[i] : i \in 1..4} \cup {NODE_CONFIGS[i] : i \in 1..Len(NODE_CONFIGS)}

OrchestratorInit ==
    /\ orch \in {[kind |-> "sequential", flag |-> "both", history |-> <<>>,
                   finished |-> FALSE, code |-> 0]}
               \cup {[kind |-> "load_graph", flag |-> f, history |-> <<>>,
                       finished |-> FALSE, code |-> 0] : f \in {"both", "nodes", "edges"}}
    /\ pc = "orchestrate"
    /\ conn = Connected
    /\ loader = "participation"
    /\ batch_size = 1
    /\ row_count = 0
    /\ table = <<>>
    /\ nodes = Graph0
    /\ rels = {}
    /\ run = 1
    /\ cursor = 0
    /\ pg_batch = <<>>
    /\ batch_list = <<>>
    /\ expected_count = 0
    /\ skipped_null_id_count = 0
    /\ skipped_missing_node_count = 0
    /\ successful_merge_operations = 0
    /\ processed_count = 0
    /\ grouped_activities = <<>>
    /\ props = [n \in {} |-> None]
    /\ detail_log = <<>>
    /\ result = "none"
    /\ skipped_record = [source_id |-> None, target_id |-> None]
    /\ logged_reason = "none"
    /\ faults = 0
    /\ calls = <<>>
    /\ first = [done |-> FALSE, nodes |-> {}, rels |-> {}, log |-> <<>>]
    /\ inflight = NoInterrupt
    /\ fallback_matches = <<>>
    /\ summary = NoSummary

\* The outcomes that make the orchestrator call sys.exit(1): a step that
\* failed, and a script that os.path.exists does not find ("missing")
Stops(o) == o \in {"failed", "missing"}

\* An orchestrator that is NOT the program's: subprocess.run without
\* check=True and without the test for the script file, so that the loop goes
\* on to the next script whatever the step did
AfterStepUnchecked(o) ==
    LET i == Len(orch.history) + 1
        steps == Steps(orch)
    IN [orch EXCEPT !.history = Append(@, [script |-> steps[i], outcome |-> o]),
                    !.finished = (i = Len(steps)),
                    !.code = 0]

\* What the orchestrator has become after its next step ended with outcome o:
\* a step that stops it ends the run with status 1, the last step with status 0
AfterStep(o) ==
    LET i == Len(orch.history) + 1
        steps == Steps(orch)
    IN [orch EXCEPT !.history = Append(@, [script |-> steps[i], outcome |-> o]),
                    !.finished = (Stops(o) \/ i = Len(steps)),
                    !.code = IF Stops(o) THEN 1 ELSE 0]

\* The line printed after the loop of load_graph_sequential.py, which is
\* reached only when no pass of the loop called sys.exit
completed_successfully(o) == o.kind = "sequential" /\ o.finished /\ o.code = 0

\* One pass of `for script in scripts`: subprocess.run(check=True) raises
\* CalledProcessError on a non-zero exit status, and the orchestrator exits 1
RunScript ==
    /\ pc = "orchestrate"
    /\ orch.kind = "sequential"
    /\ ~orch.finished
    /\ \E o \in Outcomes : orch' = AfterStep(o)
    /\ UNCHANGED <<fallback_matches,
                   loader, batch_size, row_count, table, classifier, conn, inflight,
                   graph, run,
                   pc, cursor, pg_batch, batch_list, expected_count, counters,
                   grouped_activities, detail_log, result, faults, calls, first,
                   summary>>

\* One pass of `for script in scripts` for a script that is not in the
\* directory: "Error: Script not found", sys.exit(1)
ScriptMissing ==
    /\ pc = "orchestrate"
    /\ orch.kind = "sequential"
    /\ ~orch.finished
    /\ orch' = AfterStep("missing")
    /\ UNCHANGED <<fallback_matches,
                   loader, batch_size, row_count, table, classifier, conn, inflight,
                   graph, run,
                   pc, cursor, pg_batch, batch_list, expected_count, counters,
                   grouped_activities, detail_log, result, faults, calls, first,
                   summary>>

\* One pass of `for config in NODE_CONFIGS` or `for config in EDGE_CONFIGS` of
\* load_graph.py: load_nodes and load_edges print the exception of a failed
\* batch and go on, any other exception reaches main, which exits 1
LoadConfig ==
    /\ pc = "orchestrate"
    /\ orch.kind = "load_graph"
    /\ ~orch.finished
    /\ \E o \in Outcomes : orch' = AfterStep(o)
    /\ UNCHANGED <<fallback_matches,
                   loader, batch_size, row_count, table, classifier, conn, inflight,
                   graph, run,
                   pc, cursor, pg_batch, batch_list, expected_count, counters,
                   grouped_activities, detail_log, result, faults, calls, first,
                   summary>>

OrchestratorNext ==
    \/ RunScript
    \/ ScriptMissing
    \/ LoadConfig

OrchestratorSpec == OrchestratorInit /\ [][OrchestratorNext]_vars

(* ------------------------- load_graph.load_edges ----------------------- *)
\* Rows of the source table of a run of load_graph.load_edges
MaxConfigRows == 2

\* A node as load_graph.load_nodes merges it: a label and one identifying
\* property.  Published and phantom entities share a label and differ in the
\* property that carries the identifier.
ConfigNode(label, id_property, id) == [label |-> label, prop |-> id_property, id |-> id]

\* The graph load_nodes leaves from the four NODE_CONFIGS, for the
\* identifiers of Graph0
ConfigGraph0 ==
    { ConfigNode("Organisation", "organisationidentifier", "p"),
      ConfigNode("Organisation", "organisationidentifier", "b"),
      ConfigNode("Organisation", "reference", "h"),
      ConfigNode("Organisation", "reference", "b"),
      ConfigNode("Activity", "iatiidentifier", "p"),
      ConfigNode("Activity", "iatiidentifier", "b"),
      ConfigNode("Activity", "phantom_activity_identifier", "h"),
      ConfigNode("Activity", "phantom_activity_identifier", "b") }

\* The rows a behaviour may find in the dbt model of an edge config
ConfigRows(model) ==
    IF model = "participation_links" THEN ParticipationRows ELSE FinancialRows

\* config["type"]
ConfigType(model) ==
    IF model = "participation_links" THEN "PARTICIPATES_IN" ELSE "FINANCIAL_FLOW"

\* The label a MATCH of one endpoint is made under: the fixed label of the
\* config, or the label the type column names (none for any other value)
ConfigLabel(model, side, type) ==
    IF model = "participation_links"
    THEN (IF side = "source" THEN "Organisation" ELSE "Activity")
    ELSE IF type = "ACTIVITY" THEN "Activity"
    ELSE IF type = "ORGANISATION" THEN "Organisation"
    ELSE "None"

\* MATCH (n:label) WHERE n.<published id> = id OR n.<phantom id> = id :
\* every node of the label that carries the identifier in either property
get_multi_id_where_clause(ns, label, id) ==
    {n \in ns : n.label = label /\ n.id = id}

\* `all(k in item and item[k] is not None for k in required_keys)`
required_keys(model, item) ==
    /\ item.src # None /\ item.tgt # None
    /\ model = "financial_links" => (item.stype # None /\ item.ttype # None)

RECURSIVE SeqOf(_)
\* The elements of a finite set, one after the other
SeqOf(S) ==
    IF S = {} THEN <<>>
    ELSE LET x == CHOOSE y \in S : TRUE IN <<x>> \o SeqOf(S \ {x})

RECURSIVE MergePairs(_, _, _, _)
\* MERGE (source)-[r:TYPE]->(target) SET r.<column> = row.<column>, once for
\* every (source, target) the MATCH clauses produced for the row
MergePairs(model, g, row, pairs) ==
    IF pairs = <<>> THEN g
    ELSE LET s == Head(pairs)[1]
             t == Head(pairs)[2]
             found == {r \in g.rels : r.src = s /\ r.tgt = t /\ r.type = ConfigType(model)}
             created == Rel(Cardinality(g.rels) + 1, s, t, ConfigType(model),
                            None, None, NullArr)
             set(r) == [r EXCEPT !.val = row.val,
                                 !.code = IF model = "financial_links" THEN row.code ELSE @]
         IN MergePairs(model,
               [g EXCEPT !.rels = IF found = {} THEN g.rels \cup {set(created)}
                                  ELSE (g.rels \ found) \cup {set(r) : r \in found},
                         !.bound = Append(g.bound, [row |-> row, src |-> s, tgt |-> t])],
               row, Tail(pairs))

RECURSIVE ConfigExecRows(_, _, _)
\* UNWIND $batch as row, the MATCH of the source, the MATCH of the target,
\* then the MERGE for every row that is left
ConfigExecRows(model, g, batch) ==
    IF batch = <<>> THEN g
    ELSE LET row == Head(batch)
             sources == get_multi_id_where_clause(g.nodes,
                            ConfigLabel(model, "source", row.stype), row.src)
             targets == get_multi_id_where_clause(g.nodes,
                            ConfigLabel(model, "target", row.ttype), row.tgt)
         IN ConfigExecRows(model,
               MergePairs(model, g, row, SeqOf(sources \X targets)), Tail(batch))

\* load_graph.py is started for the edges of one config, after its node
\* configs were loaded
LoadEdgesInit ==
    /\ loader \in {EDGE_CONFIGS[i] : i \in 1..Len(EDGE_CONFIGS)}
    /\ batch_size \in 1..MaxBatchSize
    /\ row_count \in 0..MaxConfigRows
    /\ table = <<>>
    /\ nodes = ConfigGraph0
    /\ rels = {}
    /\ pc = "init"
    /\ run = 1
    /\ cursor = 0
    /\ pg_batch = <<>>
    /\ batch_list = <<>>
    /\ expected_count = 0
    /\ skipped_null_id_count = 0
    /\ skipped_missing_node_count = 0
    /\ successful_merge_operations = 0
    /\ processed_count = 0
    /\ grouped_activities = <<>>
    /\ props = [n \in {} |-> None]
    /\ detail_log = <<>>
    /\ result = "none"
    /\ skipped_record = [source_id |-> None, target_id |-> None]
    /\ logged_reason = "none"
    /\ faults = 0
    /\ calls = <<>>
    /\ first = [done |-> FALSE, nodes |-> {}, rels |-> {}, log |-> <<>>]
    /\ inflight = NoInterrupt
    /\ fallback_matches = <<>>
    /\ summary = NoSummary
    /\ orch = NoOrchestrator
    /\ conn = Connected

\* The COUNT query: an empty model is skipped, otherwise the SELECT is run
LoadEdgesCount ==
    /\ pc = "init"
    /\ expected_count' = row_count
    /\ IF row_count = 0
       THEN pc' = "done" /\ result' = "success"
       ELSE pc' = "streaming" /\ result' = result
    /\ UNCHANGED <<fallback_matches,
                   loader, batch_size, row_count, table, classifier, orch, conn, inflight,
                   run, pg_batch, counters, grouped_activities, detail_log, first, summary,
                   graph, cursor, batch_list, faults, calls>>

\* fetchmany returns rows; those with every required key are kept in
\* valid_batch, and a fetch that leaves none goes on with the next fetch
LoadEdgesFetch ==
    /\ pc = "streaming"
    /\ cursor < row_count
    /\ LET n == Min(batch_size, row_count - cursor)
       IN \E batch_data \in Tables(ConfigRows(loader), n) :
            LET keep(item) == required_keys(loader, item)
                valid_batch == SelectSeq(batch_data, keep)
            IN /\ table' = table \o batch_data
               /\ cursor' = cursor + n
               /\ batch_list' = valid_batch
               /\ pc' = IF valid_batch = <<>> THEN "streaming" ELSE "merge"
    /\ UNCHANGED <<fallback_matches,
                   loader, batch_size, row_count, classifier, orch, conn, inflight,
                   run, pg_batch, counters, grouped_activities, detail_log, first, summary,
                   graph, expected_count, result, faults, calls>>

\* neo4j_session.execute_write(tx.run(cypher_query, batch=valid_batch))
LoadEdgesMerge ==
    /\ pc = "merge"
    /\ LET out == ConfigExecRows(loader, [nodes |-> nodes, rels |-> rels, props |-> props,
                                          records |-> <<>>, bound |-> <<>>], batch_list)
       IN /\ rels' = out.rels
          /\ calls' = Append(calls, Call(TRUE, batch_list, out))
    /\ batch_list' = <<>>
    /\ pc' = "streaming"
    /\ UNCHANGED <<fallback_matches,
                   loader, batch_size, row_count, table, classifier, orch, conn, inflight,
                   run, pg_batch, counters, grouped_activities, detail_log, first, summary,
                   nodes, props, cursor, expected_count, result, faults>>

\* The write raises: the error is printed and the loop goes on
LoadEdgesMergeFail ==
    /\ pc = "merge"
    /\ faults' = faults + 1
    /\ calls' = Append(calls, Call(FALSE, batch_list, [records |-> <<>>, bound |-> <<>>]))
    /\ batch_list' = <<>>
    /\ pc' = "streaming"
    /\ UNCHANGED <<fallback_matches,
                   loader, batch_size, row_count, table, classifier, orch, conn, inflight,
                   run, pg_batch, counters, grouped_activities, detail_log, first, summary,
                   graph, cursor, expected_count, result>>

\* fetchmany returns no row: load_edges returns
LoadEdgesEnd ==
    /\ pc = "streaming"
    /\ cursor = row_count
    /\ pc' = "done"
    /\ result' = "success"
    /\ UNCHANGED <<fallback_matches,
                   loader, batch_size, row_count, table, classifier, orch, conn, inflight,
                   run, pg_batch, counters, grouped_activities, detail_log, first, summary,
                   graph, cursor, batch_list, expected_count, faults, calls>>

LoadEdgesNext ==
    \/ LoadEdgesCount
    \/ LoadEdgesFetch
    \/ LoadEdgesMerge
    \/ LoadEdgesMergeFail
    \/ LoadEdgesEnd

LoadEdgesSpec == LoadEdgesInit /\ [][LoadEdgesNext]_vars

(* ------------------------ polymorphic endpoints ------------------------ *)
\* Rows of the source table of a run followed for its endpoint types
MaxResolveRows == 2

\* Rows of financial_links that name one identifier, "k", on both sides,
\* under each combination of source_node_type and target_node_type
TypedRows ==
    { Row("k", st, "k", tt, "1", "x", NullArr) :
         st \in {"ORGANISATION", "ACTIVITY"}, tt \in {"ORGANISATION", "ACTIVITY"} }

\* The graphs the node loaders can leave for identifier "k": a node under
\* any of the four labels, or under none
TypedGraphs ==
    SUBSET { Node(ORGANISATION_LABEL, "k"), Node(PHANTOM_ORG_LABEL, "k"),
             Node(ACTIVITY_LABEL, "k"), Node(PHANTOM_ACTIVITY_LABEL, "k") }

\* load_financial_edges.py started over a table of typed rows
ResolveInit ==
    /\ loader = "financial"
    /\ batch_size \in 1..MaxBatchSize
    /\ \E n \in 1..MaxResolveRows : table \in Tables(TypedRows, n)
    /\ row_count = Len(table)
    /\ nodes \in TypedGraphs
    /\ rels = {}
    /\ pc = "init"
    /\ run = 1
    /\ cursor = 0
    /\ pg_batch = <<>>
    /\ batch_list = <<>>
    /\ expected_count = 0
    /\ skipped_null_id_count = 0
    /\ skipped_missing_node_count = 0
    /\ successful_merge_operations = 0
    /\ processed_count = 0
    /\ grouped_activities = <<>>
    /\ props = [n \in {} |-> None]
    /\ detail_log = <<>>
    /\ result = "none"
    /\ skipped_record = [source_id |-> None, target_id |-> None]
    /\ logged_reason = "none"
    /\ faults = 0
    /\ calls = <<>>
    /\ first = [done |-> FALSE, nodes |-> {}, rels |-> {}, log |-> <<>>]
    /\ inflight = NoInterrupt
    /\ fallback_matches = <<>>
    /\ summary = NoSummary
    /\ orch = NoOrchestrator
    /\ conn = Connected

ResolveNext ==
    \/ Start
    \/ Fetch
    \/ Merge
    \/ EndOfData

ResolveSpec == ResolveInit /\ [][ResolveNext]_vars

(* ----------------------- phantom activity nodes ------------------------ *)
\* load_phantom_activities.py started on a graph without any node
EmptyGraphInit ==
    /\ loader = "phantom_activities"
    /\ batch_size \in 1..MaxBatchSize
    /\ row_count \in 0..MaxRows
    /\ table = <<>>
    /\ nodes = {}
    /\ rels = {}
    /\ pc = "init"
    /\ run = 1
    /\ cursor = 0
    /\ pg_batch = <<>>
    /\ batch_list = <<>>
    /\ expected_count = 0
    /\ skipped_null_id_count = 0
    /\ skipped_missing_node_count = 0
    /\ successful_merge_operations = 0
    /\ processed_count = 0
    /\ grouped_activities = <<>>
    /\ props = [n \in {} |-> None]
    /\ detail_log = <<>>
    /\ result = "none"
    /\ skipped_record = [source_id |-> None, target_id |-> None]
    /\ logged_reason = "none"
    /\ faults = 0
    /\ calls = <<>>
    /\ first = [done |-> FALSE, nodes |-> {}, rels |-> {}, log |-> <<>>]
    /\ inflight = NoInterrupt
    /\ fallback_matches = <<>>
    /\ summary = NoSummary
    /\ orch = NoOrchestrator
    /\ conn = Connected

\* A run that meets no source error and no backend failure
EmptyGraphNext ==
    \/ Start
    \/ Fetch
    \/ Merge
    \/ EndOfData

EmptyGraphSpec == EmptyGraphInit /\ [][EmptyGraphNext]_vars

(* -------------------------- publication passes ------------------------- *)
\* A row of iati_graph.published_activities and a row of
\* iati_graph.published_organisations, with the columns the queries read
ActivityRow(id, ref) == [iatiidentifier |-> id, reportingorg_ref |-> ref]
OrganisationRow(id, ref) == [organisationidentifier |-> id, reportingorg_ref |-> ref]

\* The contents the two source tables can have.  Each table holds one row
\* for an identifier at most; reportingorg_ref may be NULL.
PublishedActivities ==
    { {ActivityRow(id, f[id]) : id \in D} :
         D \in SUBSET {"A1", "A2"}, f \in [{"A1", "A2"} -> {None, "R1", "R2"}] }

PublishedOrganisations ==
    { {OrganisationRow(id, f[id]) : id \in D} :
         D \in SUBSET {"R1", "O"}, f \in [{"R1", "O"} -> {None, "R1", "R2"}] }

\* SQL `x = y`: never true of a NULL
SqlEq(x, y) == x # None /\ y # None /\ x = y

\* The SELECT of process_relationships: activities joined to the
\* organisation whose organisationidentifier is their reportingorg_ref
sql_query(acts, orgs) ==
    { Row(x[1].reportingorg_ref, None, x[1].iatiidentifier, None, None, None, NullArr) :
         x \in {y \in acts \X orgs :
                   /\ SqlEq(y[1].reportingorg_ref, y[2].organisationidentifier)
                   /\ y[1].reportingorg_ref # None} }

\* A query that is NOT the program's: the fallback join without NOT EXISTS
prep_query_unfiltered(acts, orgs) ==
    { Row(x[2].organisationidentifier, None, x[1].iatiidentifier, None, None, None, NullArr) :
         x \in {y \in acts \X orgs :
                   /\ SqlEq(y[1].reportingorg_ref, y[2].reportingorg_ref)
                   /\ y[1].reportingorg_ref # None} }

\* CREATE TEMP TABLE fallback_matches AS ...: activities joined to the
\* organisations that share their reportingorg_ref, where no organisation has
\* that reference as its organisationidentifier.  src is org_identifier.
prep_query(acts, orgs) ==
    { Row(x[2].organisationidentifier, None, x[1].iatiidentifier, None, None, None, NullArr) :
         x \in {y \in acts \X orgs :
                   /\ SqlEq(y[1].reportingorg_ref, y[2].reportingorg_ref)
                   /\ y[1].reportingorg_ref # None
                   /\ ~\E o2 \in orgs :
                         SqlEq(y[1].reportingorg_ref, o2.organisationidentifier)} }

\* The orders in which a SELECT without ORDER BY can return the rows of S
Orderings(S) ==
    {t \in Tables(S, Cardinality(S)) : {t[i] : i \in 1..Len(t)} = S}

\* create_publishes_relationships has created fallback_matches and is about
\* to start the primary pass; the graph holds the nodes of both source tables
PublishInit ==
    /\ loader = "publication"
    /\ batch_size \in 1..MaxBatchSize
    /\ \E acts \in PublishedActivities, orgs \in PublishedOrganisations :
          /\ table \in Orderings(sql_query(acts, orgs))
          /\ fallback_matches \in Orderings(prep_query(acts, orgs))
          /\ nodes = {Node(ORGANISATION_LABEL, o.organisationidentifier) : o \in orgs}
                        \cup {Node(ACTIVITY_LABEL, a.iatiidentifier) : a \in acts}
    /\ row_count = Len(table)
    /\ rels = {}
    /\ pc = "init"
    /\ run = 1
    /\ cursor = 0
    /\ pg_batch = <<>>
    /\ batch_list = <<>>
    /\ expected_count = 0
    /\ skipped_null_id_count = 0
    /\ skipped_missing_node_count = 0
    /\ successful_merge_operations = 0
    /\ processed_count = 0
    /\ grouped_activities = <<>>
    /\ props = [n \in {} |-> None]
    /\ detail_log = <<>>
    /\ result = "none"
    /\ skipped_record = [source_id |-> None, target_id |-> None]
    /\ logged_reason = "none"
    /\ faults = 0
    /\ calls = <<>>
    /\ first = [done |-> FALSE, nodes |-> {}, rels |-> {}, log |-> <<>>]
    /\ inflight = NoInterrupt
    /\ summary = NoSummary
    /\ orch = NoOrchestrator
    /\ conn = Connected

\* STEP 2: process_fallback_relationships starts on the rows of the
\* temporary table once process_relationships has returned
StartFallback ==
    /\ pc = "done"
    /\ loader = "publication"
    /\ loader' = "publication_fallback"
    /\ table' = fallback_matches
    /\ row_count' = Len(fallback_matches)
    /\ pc' = "init"
    /\ result' = "none"
    /\ summary' = NoSummary
    /\ UNCHANGED <<batch_size, classifier, orch, conn, inflight, fallback_matches, graph,
                   run, cursor, pg_batch, batch_list, expected_count, counters,
                   grouped_activities, detail_log, faults, calls, first>>

\* "Clean up": DROP TABLE IF EXISTS fallback_matches, then the final summary
\* and `return True, primary_created + fallback_created`
DropFallbackMatches ==
    /\ pc = "done"
    /\ loader = "publication_fallback"
    /\ fallback_matches' = <<>>
    /\ pc' = "finished"
    /\ result' = "success"
    /\ UNCHANGED <<loader, batch_size, row_count, table, classifier, orch, conn, inflight,
                   graph, run, cursor, pg_batch, batch_list, expected_count, counters,
                   grouped_activities, detail_log, faults, calls, first, summary>>

PublishNext ==
    \/ Start
    \/ Fetch
    \/ Merge
    \/ MergeFail
    \/ EndOfData
    \/ StartFallback
    \/ DropFallbackMatches

PublishSpec == PublishInit /\ [][PublishNext]_vars

(* ------------------------- accumulated batches ------------------------- *)
\* load_hierarchy_edges.py, in runs that meet no source error and no backend
\* failure
HierarchyInit == Init /\ loader = "hierarchy"

HierarchyNext ==
    \/ Start
    \/ Fetch
    \/ Merge
    \/ EndOfData
    \/ FinalMerge

HierarchySpec == HierarchyInit /\ [][HierarchyNext]_vars

(* ------------------------------ properties ----------------------------- *)
RECURSIVE Flatten(_)
\* The concatenation of a sequence of sequences
Flatten(ss) == IF ss = <<>> THEN <<>> ELSE Head(ss) \o Flatten(Tail(ss))

\* Every row a successful backend call merged, in the order of the merges,
\* with the nodes it was bound to
Merged == Flatten([i \in 1..Len(calls) |-> calls[i].bound])

\* Every item a successful backend call was sent, in order
SentItems == Flatten([i \in 1..Len(calls) |-> IF calls[i].ok THEN calls[i].batch ELSE <<>>])

\* The label family of an endpoint, as the design gives it: organisations on
\* the source side of participation links, the declared type on financial
\* links, activities everywhere else
PublishedLabelOf(l, side, type) ==
    IF l = "financial"
    THEN (IF type = "ORGANISATION" THEN ORGANISATION_LABEL ELSE ACTIVITY_LABEL)
    ELSE IF l = "participation" /\ side = "source" THEN ORGANISATION_LABEL
    ELSE ACTIVITY_LABEL

PhantomLabelOf(l, side, type) ==
    IF PublishedLabelOf(l, side, type) = ORGANISATION_LABEL
    THEN PHANTOM_ORG_LABEL ELSE PHANTOM_ACTIVITY_LABEL

\* The node an identifier must resolve to in a graph with nodes ns
Expected(ns, l, side, type, id) ==
    IF Node(PublishedLabelOf(l, side, type), id) \in ns
    THEN Node(PublishedLabelOf(l, side, type), id)
    ELSE IF Node(PhantomLabelOf(l, side, type), id) \in ns
    THEN Node(PhantomLabelOf(l, side, type), id)
    ELSE NoNode

\* C1: every run of an edge loader that reports success ends with
\* expected_source_rows = null skips + unresolved skips + successful merges,
\* whatever source errors and backend failures the run met.
Conservation ==
    (loader \in EdgeLoaders /\ pc = "done" /\ result = "success")
        => expected_count = skipped_null_id_count + skipped_missing_node_count
                                + successful_merge_operations

\* C2: a second run of the same loader on unchanged source data and unchanged
\* endpoint nodes creates no node and no relationship: at every point of the
\* second run the graph holds the nodes and the relationships the first run
\* left, and no other.
Idempotence ==
    run = 2 => /\ nodes = first.nodes
               /\ {r.id : r \in rels} = {r.id : r \in first.rels}
               /\ Cardinality(rels) = Cardinality(first.rels)

\* The second run of an edge loader is over and has merged rows again
IdempotenceWitness ==
    /\ run = 2 /\ pc = "done" /\ loader \in EdgeLoaders
    /\ rels # {}
    /\ \E i \in 1..Len(calls) : calls[i].run = 2 /\ calls[i].bound # <<>>

\* C3: an endpoint is bound to the published node with its identifier if
\* there is one, else to the phantom node if there is one, else it is
\* reported missing; with both present the published node is bound.
PublishedPrecedence ==
    loader \in EdgeLoaders =>
        \A i \in 1..Len(calls) :
            /\ \A j \in 1..Len(calls[i].bound) :
                  LET e == calls[i].bound[j]
                  IN /\ e.src = Expected(calls[i].nodes, loader, "source", e.row.stype, e.row.src)
                     /\ e.tgt = Expected(calls[i].nodes, loader, "target", e.row.ttype, e.row.tgt)
                     /\ e.src # NoNode /\ e.tgt # NoNode
            /\ \A j \in 1..Len(calls[i].records) :
                  LET rec == calls[i].records[j]
                  IN /\ rec.source_missing =
                          (Expected(calls[i].nodes, loader, "source",
                                    rec.source_type, rec.source_id) = NoNode)
                     /\ rec.target_missing =
                          (Expected(calls[i].nodes, loader, "target",
                                    rec.target_type, rec.target_id) = NoNode)

\* A merged row whose source has only a phantom node and whose target has a
\* published and a phantom node
PublishedPrecedenceWitness ==
    /\ loader \in {"participation", "funds", "hierarchy", "activity_participation"}
    /\ \E k \in 1..Len(Merged) :
          /\ Merged[k].row.src = "h" /\ Merged[k].row.tgt = "b"
          /\ Node(PHANTOM_ACTIVITY_LABEL, "b") \in nodes
          /\ Merged[k].tgt = Node(ACTIVITY_LABEL, "b")

RECURSIVE DedupActs(_, _, _)
\* The source_activity_id values of the rows of t that carry identifier id,
\* each once, in the order of their first row
DedupActs(t, id, acc) ==
    IF t = <<>> THEN acc
    ELSE LET act == Head(t).source_activity_id
         IN DedupActs(Tail(t), id,
               IF Head(t).phantom_activity_identifier = id /\ act # None
                  /\ (\A i \in 1..Len(acc) : acc[i] # act)
               THEN Append(acc, act) ELSE acc)

\* C4: after the phantom activity loader returns success, the node of every
\* identifier in the source table holds the duplicate-free list of the
\* source_activity_id values of its rows, in row order, and its length as
\* reference_count, however the rows were split across fetches.
GroupingCorrect ==
    (loader = "phantom_activities" /\ pc = "done" /\ result = "success" /\ faults = 0)
        => \A id \in {"h", "n"} :
              (\E i \in 1..Len(table) : table[i].phantom_activity_identifier = id)
                 => LET n == Node(PHANTOM_ACTIVITY_LABEL, id)
                    IN /\ n \in DOMAIN props
                       /\ props[n].source_activity_ids = DedupActs(table, id, <<>>)
                       /\ props[n].reference_count = Len(DedupActs(table, id, <<>>))

\* A row with a null source or target identifier
NullId(row) == row.src = None \/ row.tgt = None

\* A row with an empty-string source or target identifier and no null one
EmptyId(row) == ~NullId(row) /\ (row.src = "" \/ row.tgt = "")

\* The reasons that stand for the null-identifier class in the detail logs
NullReasons == {"NULL_ID", "NULL_ID_OR_TYPE", "NULL_SOURCE_ID", "NULL_TARGET_ID"}

\* The rows of the source table the row loop has looked at so far
Scanned == SubSeq(table, 1, cursor - Len(pg_batch))

KeepsNodes ==
    /\ nodes' = nodes
    /\ \A r \in rels' : r.src \in nodes /\ r.tgt \in nodes

\* C6: an edge loader (the publication passes included) never changes the
\* set of graph nodes, and every relationship it leaves joins two nodes that
\* were there before the step: a row with an unmatched identifier gives no
\* node and no relationship.
NoNodeCreated == [][(loader \in EdgeLoaders \cup PublicationLoaders) => KeepsNodes]_vars

\* A backend call has returned for a batch with a row whose identifier no
\* node carries, and the nodes are those the run started with
NoNodeCreatedWitness ==
    /\ loader \in EdgeLoaders
    /\ nodes = Graph0
    /\ \E i \in 1..Len(calls) :
          /\ calls[i].ok
          /\ \E j \in 1..Len(calls[i].batch) :
                calls[i].batch[j].src = "m" \/ calls[i].batch[j].tgt = "m"

\* C7: in the financial loader the relationships between a source node and a
\* target node are as many as the distinct transactiontype_code values of
\* the rows merged for that pair.
TransactionTypeInKey ==
    loader = "financial" =>
        LET merged == Merged
        IN /\ \A r \in rels : \E k \in 1..Len(merged) :
                 merged[k].src = r.src /\ merged[k].tgt = r.tgt
           /\ \A m \in 1..Len(merged) :
                 Cardinality({r \in rels : /\ r.src = merged[m].src
                                            /\ r.tgt = merged[m].tgt
                                            /\ r.type = "FINANCIAL_TRANSACTION"})
                   = Cardinality({merged[k].row.code :
                                     k \in {k \in 1..Len(merged) :
                                               /\ merged[k].src = merged[m].src
                                               /\ merged[k].tgt = merged[m].tgt}})

\* Three rows were merged for one pair, two of them with the same code, and
\* the pair has two relationships
TransactionTypeInKeyWitness ==
    /\ loader = "financial"
    /\ \E k1, k2, k3 \in 1..Len(Merged) :
          /\ k1 < k2 /\ k1 # k3 /\ k2 # k3
          /\ Merged[k1].src = Merged[k2].src /\ Merged[k1].tgt = Merged[k2].tgt
          /\ Merged[k1].src = Merged[k3].src /\ Merged[k1].tgt = Merged[k3].tgt
          /\ Merged[k1].row.code = Merged[k2].row.code
          /\ Merged[k1].row.code # Merged[k3].row.code
          /\ Cardinality({r \in rels : r.src = Merged[k1].src /\ r.tgt = Merged[k1].tgt}) = 2

\* Whether merged row e has the merge key of relationship r
SameKey(l, r, e) ==
    r.src = e.src /\ r.tgt = e.tgt /\ (l = "financial" => r.code = e.row.code)

\* The first element of a text[] value, null when there is none
FirstOrNone(a) == IF a.isnull \/ a.elems = <<>> THEN None ELSE a.elems[1]

\* Whether relationship r holds the property values row supplies
HoldsRow(l, r, row) ==
    /\ r.val = (IF l = "activity_participation" THEN None
                ELSE IF l = "hierarchy" THEN FirstOrNone(row.arr)
                ELSE row.val)
    /\ r.arr = (IF l = "activity_participation" THEN row.arr ELSE NullArr)

\* Whether the properties ps of a node are those item supplies
HoldsItem(l, ps, item) ==
    IF l = "published_organisations" THEN ps.name = item.name
    ELSE /\ ps.source_columns = item.source_columns
         /\ ps.source_activity_ids = item.source_activity_ids
         /\ ps.reference_count = item.reference_count

Unresolved(ns, l, row) ==
    \/ Expected(ns, l, "source", row.stype, row.src) = NoNode
    \/ Expected(ns, l, "target", row.ttype, row.tgt) = NoNode

\* C9: every executed batch returns one record, in row order, for each row
\* with an unresolved endpoint and none for a merged row, so that
\* len(batch) - len(records) is the number of merged rows and is not negative.
ExecutorRecords ==
    loader \in EdgeLoaders =>
        \A i \in 1..Len(calls) :
            calls[i].ok =>
                LET c == calls[i]
                    IsUnresolved(row) == Unresolved(c.nodes, loader, row)
                    IsResolved(row) == ~Unresolved(c.nodes, loader, row)
                    un == SelectSeq(c.batch, IsUnresolved)
                    res == SelectSeq(c.batch, IsResolved)
                IN /\ Len(c.records) = Len(un)
                   /\ \A j \in 1..Len(un) :
                         /\ c.records[j].source_id = un[j].src
                         /\ c.records[j].target_id = un[j].tgt
                   /\ Len(c.bound) = Len(res)
                   /\ \A j \in 1..Len(res) : c.bound[j].row = res[j]
                   /\ Len(c.batch) - Len(c.records) = Len(c.bound)
                   /\ Len(c.batch) - Len(c.records) >= 0

\* One executed batch held a row that merged and a row that did not
ExecutorRecordsWitness ==
    /\ loader \in EdgeLoaders
    /\ \E i \in 1..Len(calls) :
          /\ calls[i].ok
          /\ Len(calls[i].records) = 1
          /\ Len(calls[i].batch) = 2
          /\ successful_merge_operations >= 1

\* The flags of the record under classification, as the design reads them
FlagIs(key, value) == key \in DOMAIN skipped_record /\ skipped_record[key] = value
FlagAbsent(key) == key \notin DOMAIN skipped_record

BothReasons == {"BOTH_MISSING", "BOTH_NODES_MISSING"}
SourceReasons ==
    {"SOURCE_ORG_MISSING", "SOURCE_MISSING", "SOURCE_NODE_MISSING",
     "SOURCE_ORGANISATION_MISSING", "SOURCE_ACTIVITY_MISSING", "SOURCE_ERROR_MISSING"}
TargetReasons ==
    {"TARGET_ACT_MISSING", "TARGET_MISSING", "TARGET_NODE_MISSING",
     "TARGET_ORGANISATION_MISSING", "TARGET_ACTIVITY_MISSING", "TARGET_ERROR_MISSING"}
UnknownReasons == {"UNKNOWN", "UNKNOWN_NODE_MISSING"}

RECURSIVE SumLen(_, _)
\* The number of rows in the batches of the calls that satisfy the flag ok
SumLen(cs, ok) ==
    IF cs = <<>> THEN 0
    ELSE (IF Head(cs).ok = ok THEN Len(Head(cs).batch) ELSE 0) + SumLen(Tail(cs), ok)

\* The detail lines of a missing-node reason
MissingLines ==
    Cardinality({i \in 1..Len(detail_log) :
                    detail_log[i].reason \notin NullReasons \cup {"HEADER"}})

\* C11: a batch whose backend call fails is unprocessed: the successful-merge
\* counter and the skipped/unresolved counter together count the rows of the
\* batches whose call returned and no other row, and the missing-node lines
\* are those of the records these calls returned.
FailedBatchUnprocessed ==
    loader \in EdgeLoaders \cup PublicationLoaders =>
        /\ successful_merge_operations + skipped_missing_node_count = SumLen(calls, TRUE)
        /\ successful_merge_operations = Len(Merged)
        /\ loader \in EdgeLoaders =>
              MissingLines = Len(Flatten([i \in 1..Len(calls) |-> calls[i].records]))

\* C12: a loader process exits with code 0 only when the whole load
\* succeeded: a run that met a batch-level backend failure or a source
\* fetch or query failure exits with code 1.
ExitCodeReflectsFailure ==
    pc = "done" => (ExitCode(result) = 0 <=> faults = 0)

\* The published node loader of the family of a phantom node loader
PublishedOf(step) ==
    CASE step = "load_phantom_activities.py" -> "load_published_activities.py"
      [] step = "load_phantom_organisations.py" -> "load_published_organisations.py"
      [] step = "phantom_activities" -> "published_activities"
      [] step = "phantom_organisations" -> "published_organisations"
      [] OTHER -> None

\* Step i of the run was started after step name had ended without any error
CompletedBefore(name, i) ==
    \E j \in 1..(i - 1) :
        orch.history[j].script = name /\ orch.history[j].outcome = "ok"

\* C13: in a full orchestrated run a phantom node loader starts only after the
\* published node loader of its family has run, and an edge loader starts
\* only after every node loader has completed without error.
CrossLoaderOrdering ==
    orch.flag = "both" =>
        \A i \in 1..Len(orch.history) :
            LET step == orch.history[i].script
            IN /\ PublishedOf(step) # None =>
                     \E j \in 1..(i - 1) : orch.history[j].script = PublishedOf(step)
               /\ step \notin NodeSteps =>
                     \A n \in NodeSteps :
                        (\E k \in 1..Len(Steps(orch)) : Steps(orch)[k] = n)
                            => CompletedBefore(n, i)
\* Sequence a is the beginning of sequence b
IsPrefix(a, b) == Len(a) <= Len(b) /\ SubSeq(b, 1, Len(a)) = a

\* The positions of the header rows of the detail log
HeaderRows == {i \in 1..Len(detail_log) : detail_log[i] = Header}

\* C14: after the runs of an edge loader the detail log has exactly one header
\* row, its first line, and still holds every row the earlier run wrote.
DetailLogAppendOnly ==
    (loader \in EdgeLoaders /\ pc = "done" /\ result = "success") =>
        /\ HeaderRows = {1}
        /\ first.done => IsPrefix(first.log, detail_log)
\* The data rows of the detail log
DataRows == {i \in 1..Len(detail_log) : detail_log[i].reason # "HEADER"}

\* C15: between the batches of an edge-loader run the detail log holds one data
\* row per counted skip: as many data rows as skipped_null_id_count +
\* skipped_missing_node_count.
OneDetailRowPerSkip ==
    (loader \in EdgeLoaders /\ pc \in {"streaming", "merge", "final", "done"}) =>
        Cardinality(DataRows) = skipped_null_id_count + skipped_missing_node_count

\* A run between two batches that has counted a null skip and an unresolved one
OneDetailRowPerSkipWitness ==
    /\ loader \in EdgeLoaders
    /\ pc = "streaming"
    /\ calls # <<>>
    /\ skipped_null_id_count >= 1
    /\ skipped_missing_node_count >= 1
    /\ Cardinality(DataRows) >= 2
\* C16: when an operator interrupt arrives during an edge-loader run, the
\* skip entries of the batch being handled (lines and matching counter
\* increments) have either all been recorded or none of them has.
InterruptAtomicity ==
    (loader \in EdgeLoaders /\ inflight.hit) =>
        /\ inflight.counted = inflight.logged
        /\ inflight.logged \in {0, inflight.due}
\* C17: an edge-loader run that has sent a batch to the backend and then
\* terminates, whether it completed or was aborted by a failed batch, reports
\* a summary holding the null skips, the unresolved skips and the
\* successful merges counted so far.
SummaryAlwaysReported ==
    (loader \in EdgeLoaders /\ pc = "done" /\ calls # <<>> /\ ~inflight.hit) =>
        /\ summary.fields = {"null", "missing", "merges"}
        /\ summary.null = skipped_null_id_count
        /\ summary.missing = skipped_missing_node_count
        /\ summary.merges = successful_merge_operations
\* The merge count differs from the source rows left after the skips
Mismatch ==
    successful_merge_operations
        # expected_count - (skipped_null_id_count + skipped_missing_node_count)

\* C18: an edge-loader run that reaches its reconciliation with a merge count
\* different from expected_count - skipped_null - skipped_missing still
\* returns success (exit code 0), and its summary warns about the mismatch.
MismatchNeverFatal ==
    (loader \in EdgeLoaders /\ pc = "done" /\ row_count > 0 /\ ~inflight.hit
        /\ summary.fields = {"null", "missing", "merges"} /\ Mismatch) =>
            /\ ExitCode(result) = 0
            /\ summary.warning
\* The waits slept so far are 2, 4, 8, ... seconds, one after each failed
\* attempt that was followed by another one; at most MaxAttempts attempts
\* are made, and the process exits only when the last of them has failed
Backoff ==
    /\ conn.attempt \in 0..(MaxAttempts - 1)
    /\ Len(conn.slept) = conn.attempt
    /\ \A i \in 1..Len(conn.slept) : conn.slept[i] = 2^i
    /\ conn.state = "failed" =>
          /\ conn.slept = <<2, 4, 8, 16>>
          /\ pc = "done"
          /\ ExitCode(result) = 1

\* The rows of all the batches sent so far, failed calls included
RECURSIVE RowsSent(_)
RowsSent(cs) == IF cs = <<>> THEN 0 ELSE Len(Head(cs).batch) + RowsSent(Tail(cs))

\* Once the driver is returned no further attempt is made and nothing more
\* is slept, and a failed backend call is not made again: the run goes on to
\* the next rows or ends
NoReattempt ==
    /\ conn.state = "connected" =>
          /\ conn'.state = "connected"
          /\ conn'.attempt = conn.attempt
          /\ conn'.slept = conn.slept
    /\ faults' > faults /\ pc \in {"merge", "final"} => pc' \in {"streaming", "done"}

\* C19 as stated, for every script that connects to the graph backend
ConnectionRetryAsStated == Backoff

\* C19: get_neo4j_driver of db_utils (and its copy in
\* load_published_activities.py) makes at most 5 attempts, waits 2, 4, 8 and
\* 16 seconds after the failed attempts 1 to 4, returns the driver at the first
\* successful attempt and exits with code 1 after the fifth failure without
\* a further wait; connection establishment always terminates; once batch
\* processing has started no connection and no batch is attempted again.
ConnectionRetry ==
    /\ [](Retries(conn.script) => Backoff /\ RowsSent(calls) <= cursor)
    /\ [][Retries(conn.script) => NoReattempt]_vars
    /\ <>(pc # "connect")

\* A run whose driver was returned at the fifth attempt, after the four
\* waits, and which has gone on after a failed batch
ConnectionRetryWitness ==
    /\ Retries(conn.script)
    /\ conn.state = "connected"
    /\ conn.attempt = MaxAttempts - 1
    /\ conn.slept = <<2, 4, 8, 16>>
    /\ pc = "streaming"
    /\ faults >= 1
    /\ calls # <<>>
\* C20: every batch submitted to the graph backend, by any loader, holds at
\* least one row and at most batch_size rows.
BatchSizeBound ==
    \A i \in 1..Len(calls) :
        /\ Len(calls[i].batch) >= 1
        /\ Len(calls[i].batch) <= batch_size

\* The elements a relationship holds for the array-typed column of its
\* loader: role_codes / role_names, or declared_by
StoredElems(l, r) ==
    IF l = "hierarchy" THEN (IF r.val = None THEN <<>> ELSE <<r.val>>)
    ELSE r.arr.elems

\* C21: the relationship of every merged row holds, for the array-typed
\* column, the full sequence of the elements of the row that was merged into
\* it last, in source order, with no element dropped.
ArrayPassThrough ==
    loader \in {"activity_participation", "hierarchy"} =>
        LET merged == Merged
        IN \A r \in rels : \A k \in 1..Len(merged) :
              (/\ merged[k].src = r.src /\ merged[k].tgt = r.tgt
               /\ \A j \in (k + 1)..Len(merged) :
                     ~(merged[j].src = r.src /\ merged[j].tgt = r.tgt))
                 => StoredElems(loader, r) = merged[k].row.arr.elems

\* C22: in every edge loader no merge request, and no batch being built,
\* holds a row whose source or target identifier is null or the empty string.
ResolverNeverGetsEmptyKey ==
    loader \in EdgeLoaders =>
        /\ \A i \in 1..Len(calls) : \A j \in 1..Len(calls[i].batch) :
              ~Falsy(calls[i].batch[j].src) /\ ~Falsy(calls[i].batch[j].tgt)
        /\ \A j \in 1..Len(batch_list) :
              ~Falsy(batch_list[j].src) /\ ~Falsy(batch_list[j].tgt)

\* The node an endpoint of the given type must be bound to: the published
\* node of the type's family, else the phantom node of that family, else none
InFamily(ns, type, id) ==
    LET pub == IF type = "ORGANISATION" THEN ORGANISATION_LABEL ELSE ACTIVITY_LABEL
        phan == IF type = "ORGANISATION" THEN PHANTOM_ORG_LABEL ELSE PHANTOM_ACTIVITY_LABEL
    IN IF Node(pub, id) \in ns THEN Node(pub, id)
       ELSE IF Node(phan, id) \in ns THEN Node(phan, id)
       ELSE NoNode

\* The records a call returned for the endpoints and types of a batch item
RecordsFor(c, item) ==
    {j \in 1..Len(c.records) :
        /\ c.records[j].source_id = item.src /\ c.records[j].source_type = item.stype
        /\ c.records[j].target_id = item.tgt /\ c.records[j].target_type = item.ttype}

\* C23: in the financial loader every row sent to the backend has each
\* endpoint resolved within the family its type column names (published node
\* first, then phantom) and nowhere else.  When both endpoints resolve, the
\* relationship between the two nodes exists and no skip is recorded for the
\* row; otherwise no relationship is made for it and a skip record tells
\* which endpoint is missing.
PolymorphicResolution ==
    loader = "financial" =>
        \A i \in 1..Len(calls) : \A j \in 1..Len(calls[i].batch) :
            LET c == calls[i]
                item == c.batch[j]
                s == InFamily(c.nodes, item.stype, item.src)
                t == InFamily(c.nodes, item.ttype, item.tgt)
            IN IF s # NoNode /\ t # NoNode
               THEN /\ \E k \in 1..Len(c.bound) :
                          c.bound[k].row = item /\ c.bound[k].src = s /\ c.bound[k].tgt = t
                    /\ \E r \in rels : r.src = s /\ r.tgt = t /\ r.code = item.code
                    /\ RecordsFor(c, item) = {}
               ELSE /\ \A k \in 1..Len(c.bound) : c.bound[k].row # item
                    /\ RecordsFor(c, item) # {}
                    /\ \A k \in RecordsFor(c, item) :
                          /\ c.records[k].source_missing = (s = NoNode)
                          /\ c.records[k].target_missing = (t = NoNode)

\* The run is over in a graph where "k" is a phantom organisation and nothing
\* else: the row from organisation to organisation was merged between the
\* phantom node and itself without a skip, and the row whose source is typed
\* as an activity was returned with its source missing.
PolymorphicResolutionWitness ==
    /\ loader = "financial" /\ pc = "done" /\ result = "success"
    /\ nodes = {Node(PHANTOM_ORG_LABEL, "k")}
    /\ \E r \in rels : r.src = Node(PHANTOM_ORG_LABEL, "k")
    /\ successful_merge_operations = 1
    /\ skipped_missing_node_count = 1
    /\ \E i \in 1..Len(calls) : \E j \in 1..Len(calls[i].records) :
          /\ calls[i].records[j].source_type = "ACTIVITY"
          /\ calls[i].records[j].source_missing
          /\ ~calls[i].records[j].target_missing

\* The detail lines a source row must get in a graph with nodes ns: the line
\* of the validation, or the line of the record the backend returns for it
DueLines(l, ns, row) ==
    IF IsNullSkip(l, row) THEN <<NullSkipLine(l, row)>>
    ELSE SkipLines(l, RunCypher(l, ns, {}, [n \in {} |-> None],
                                <<sanitised_item(l, row)>>).records)

\* The lines due for the first n rows of the source table
DueUpTo(n) == Flatten([k \in 1..n |-> DueLines(loader, nodes, table[k])])

\* How often x occurs in seq
Count(seq, x) == Cardinality({k \in 1..Len(seq) : seq[k] = x})

\* a and b hold the same lines, each as often
SameLines(a, b) ==
    /\ Len(a) = Len(b)
    /\ \A k \in 1..Len(a) : Count(a, a[k]) = Count(b, a[k])

\* C24: when a first run of an edge loader has ended without an error, the
\* lines of its detail log follow the order of the fetched batches: for every
\* fetch, the lines of the rows fetched so far are the first lines of the log
\* (after the header), so that no line of a later fetch precedes a line of an
\* earlier one.
DetailLogOrder ==
    (loader \in EdgeLoaders /\ pc = "done" /\ run = 1 /\ faults = 0 /\ row_count > 0)
        => \A i \in 1..row_count :
              (i % batch_size = 0 \/ i = row_count)
                 => LET due == DueUpTo(i)
                        data == Tail(detail_log)
                    IN /\ Len(due) <= Len(data)
                       /\ SameLines(SubSeq(data, 1, Len(due)), due)

\* C25: every row merged by an edge loader, load_graph.load_edges included,
\* has its source identifier bound to one node and its target identifier
\* bound to one node, so that a call merges at most one relationship for
\* each row it was sent, even when a published and a phantom node carry the
\* same identifier.
OneNodePerEndpoint ==
    \A i \in 1..Len(calls) :
        /\ Len(calls[i].bound) <= Len(calls[i].batch)
        /\ \A j, k \in 1..Len(calls[i].bound) :
              calls[i].bound[j].row = calls[i].bound[k].row
                 => /\ calls[i].bound[j].src = calls[i].bound[k].src
                    /\ calls[i].bound[j].tgt = calls[i].bound[k].tgt

\* The reaction of an edge loader to a backend failure of a batch sent from
\* inside its fetch loop: the funds loader logs it and goes on, every other
\* edge loader stops the run and returns failure
AbortsInLoop(l) == l # "funds"

\* C26: within each edge loader the reaction to a failed batch is the same
\* whichever batch fails: a run of a loader that aborts on a failure inside
\* the loop ends in failure whenever one of its batches failed, the final
\* partial batch included, and a run of a loader that goes on never ends in
\* failure because of a failed batch.
FailurePolicyConsistent ==
    (/\ loader \in EdgeLoaders /\ pc = "done"
     /\ \E i \in 1..Len(calls) : ~calls[i].ok)
        => result = (IF AbortsInLoop(loader) THEN "failure" ELSE "success")

\* C27: the sequential orchestrator runs the listed scripts in order and
\* stops at the first one that is missing or exits with a non-zero code: that
\* script is the last one started and the orchestrator exits with code 1.
\* The final success line is printed only if each of the eight scripts was
\* run and exited with code 0.
StopsAtFirstFailure ==
    orch.kind = "sequential" =>
        /\ Len(orch.history) <= Len(scripts)
        /\ \A i \in 1..Len(orch.history) :
              /\ orch.history[i].script = scripts[i]
              /\ Stops(orch.history[i].outcome)
                    => /\ i = Len(orch.history)
                       /\ orch.finished
                       /\ orch.code = 1
                       /\ ~ENABLED RunScript
        /\ completed_successfully(orch)
              => /\ Len(orch.history) = 8
                 /\ \A i \in 1..8 : ~Stops(orch.history[i].outcome)
        /\ (orch.finished /\ orch.code = 1) => Stops(orch.history[Len(orch.history)].outcome)

\* The orchestrator has exited with code 1 at its fourth script, which is
\* missing, after three scripts that exited with code 0
StopsAtFirstFailureWitness ==
    /\ orch.kind = "sequential"
    /\ Len(orch.history) = 4
    /\ orch.history[4] = [script |-> "load_phantom_organisations.py", outcome |-> "missing"]
    /\ orch.finished /\ orch.code = 1
    /\ ~completed_successfully(orch)

\* The distinct non-null identifiers of the source table
DistinctIds == {table[i].phantom_activity_identifier : i \in 1..Len(table)} \ {None}

\* C28: when the phantom activity loader returns success on a graph that was
\* empty, the graph holds one PhantomActivity node for each distinct non-null
\* identifier of the source table and no other node, and processed_count is
\* the number of these identifiers, for every row count and batch size.
PhantomCompleteness ==
    (loader = "phantom_activities" /\ pc = "done" /\ result = "success")
        => /\ nodes = {Node(PHANTOM_ACTIVITY_LABEL, id) : id \in DistinctIds}
           /\ processed_count = Cardinality(DistinctIds)

\* A relationship that holds match_method 'primary' holds it after the step
KeepsPrimary ==
    \A r \in rels : r.val = "primary" => \E q \in rels' : q.id = r.id /\ q.val = "primary"

ValidRows(t) ==
    LET valid(row) == ~IsNullSkip("hierarchy", row)
    IN SelectSeq(t, valid)

\* C30: in a run of the hierarchy loader without a backend failure, the rows
\* submitted so far followed by the rows waiting in neo4j_batch are the rows
\* with non-empty identifiers among those the row loop has passed, each once
\* and in cursor order; when the run has ended, the rows submitted are all
\* such rows of the table, each in exactly one batch.
SubmittedExactlyOnce ==
    loader = "hierarchy" =>
        LET sent == Flatten([i \in 1..Len(calls) |-> calls[i].batch])
        IN /\ pc # "done" => sent \o batch_list = ValidRows(Scanned)
           /\ pc = "done" => /\ Len(table) = row_count
                             /\ sent = ValidRows(table)

\* A run over four rows with batch size 2 has ended: the first row was
\* skipped, the first batch took a row of each of the two fetches, and the
\* last row went out in the final batch
SubmittedExactlyOnceWitness ==
    /\ loader = "hierarchy" /\ pc = "done" /\ result = "success"
    /\ batch_size = 2 /\ row_count = 4
    /\ IsNullSkip("hierarchy", table[1])
    /\ skipped_null_id_count = 1
    /\ Len(calls) = 2
    /\ calls[1].batch = <<table[2], table[3]>>
    /\ calls[2].batch = <<table[4]>>
====
